---- MODULE Spec2Model ----
(***************************************************************************)
(* Name reconciliation and record unification of the attendance-report     *)
(* pipeline: data_validator.py (normalize_name, fix_rtl_name,              *)
(* match_employee_name, validate_hours, validate_and_unify_data) and the   *)
(* get_best_name_match copies of export_to_excel.py and                    *)
(* google_sheets_updater.py.                                               *)
(*                                                                         *)
(* Strings are sequences of Unicode code points, so that the character     *)
(* classes of the source (whitespace, the punctuation - " ', the Hebrew    *)
(* range U+0590..U+05FF, upper case) are the source's own tests.           *)
(* An Optional value is a sequence of length at most one: None is <<>>,    *)
(* a value x is <<x>>.                                                     *)
(* A float that is a quotient of integers is a pair <<num, den>>, den > 0, *)
(* compared by cross-multiplication.                                       *)
(***************************************************************************)
EXTENDS Integers, Sequences, FiniteSets, TLC

----------------------------------------------------------------------------
(* Optional values *)

None == <<>>

Some(x) == <<x>>

IsNone(o) == o = <<>>

Val(o) == o[1]

----------------------------------------------------------------------------
(* Characters and strings *)

\* str.strip() and the regular expression class \s: ASCII white space
Whitespace == {9, 10, 11, 12, 13, 32}

\* the character class [-"\'] of normalize_name
Punctuation == {45, 34, 39}

\* '\u0590' <= c <= '\u05FF'
IsHebrew(c) == 1424 <= c /\ c <= 1535

\* "**CHECK: "
CHECK_PREFIX == <<42, 42, 67, 72, 69, 67, 75, 58, 32>>

\* "**CHECK:", the prefix the startswith tests look for
CHECK_MARK == <<42, 42, 67, 72, 69, 67, 75, 58>>

startswith(s, p) == Len(s) >= Len(p) /\ SubSeq(s, 1, Len(p)) = p

RECURSIVE lower(_)
lower(s) ==
  IF s = <<>> THEN <<>>
  ELSE <<IF 65 <= Head(s) /\ Head(s) <= 90 THEN Head(s) + 32 ELSE Head(s)>>
       \o lower(Tail(s))

RECURSIVE lstrip(_)
lstrip(s) ==
  IF s # <<>> /\ Head(s) \in Whitespace THEN lstrip(Tail(s)) ELSE s

RECURSIVE rstrip(_)
rstrip(s) ==
  IF s # <<>> /\ s[Len(s)] \in Whitespace
  THEN rstrip(SubSeq(s, 1, Len(s) - 1))
  ELSE s

strip(s) == rstrip(lstrip(s))

\* re.sub(r'[-"\']', ' ', name)
RECURSIVE sub_punctuation(_)
sub_punctuation(s) ==
  IF s = <<>> THEN <<>>
  ELSE <<IF Head(s) \in Punctuation THEN 32 ELSE Head(s)>>
       \o sub_punctuation(Tail(s))

\* re.sub(r'\s+', ' ', name)
RECURSIVE sub_spaces(_)
sub_spaces(s) ==
  IF s = <<>> THEN <<>>
  ELSE IF Head(s) \in Whitespace THEN <<32>> \o sub_spaces(lstrip(s))
  ELSE <<Head(s)>> \o sub_spaces(Tail(s))

\* name[::-1]
RECURSIVE reversed(_)
reversed(s) ==
  IF s = <<>> THEN <<>> ELSE reversed(Tail(s)) \o <<Head(s)>>

\* a normalize_name without the strip() that ends line 72
normalize_name_unstripped(name) ==
  IF name = <<>> THEN <<>>
  ELSE sub_spaces(sub_punctuation(strip(name)))

\* lines 63-73, for a string
normalize_name(name) ==
  IF name = <<>> THEN <<>>
  ELSE strip(sub_spaces(sub_punctuation(strip(name))))

\* a value that is neither null nor a string (a number, a list)
NOT_A_STRING == <<0, 0>>

\* isinstance(name, str): a string is Some(characters)
IsString(value) == Len(value) = 1

\* lines 63-73, for any value: "" for null and for what is not a string
normalize_name_of(value) ==
  IF ~IsString(value) THEN <<>> ELSE normalize_name(Val(value))

\* a fix_rtl_name that reverses nothing
fix_rtl_name_never(name) == name

fix_rtl_name(name) ==
  IF name = <<>> THEN name
  ELSE IF \E i \in 1..Len(name) : IsHebrew(name[i]) THEN reversed(name)
  ELSE name

----------------------------------------------------------------------------
(* difflib.SequenceMatcher(None, a, b).ratio(), no junk (autojunk needs     *)
(* 200 characters). Indices are 0-based and half-open as in difflib.        *)

RECURSIVE common_run(_, _, _, _, _, _)
common_run(a, b, i, j, ahi, bhi) ==
  IF i < ahi /\ j < bhi /\ a[i + 1] = b[j + 1]
  THEN 1 + common_run(a, b, i + 1, j + 1, ahi, bhi)
  ELSE 0

\* the longest matching block of a[alo:ahi] and b[blo:bhi]; of the longest,
\* the one that starts earliest in a, and of those the earliest in b
longest_block(blocks, alo, blo) ==
  IF blocks = {} THEN <<alo, blo, 0>>
  ELSE CHOOSE p \in blocks : \A q \in blocks :
         \/ p[3] > q[3]
         \/ /\ p[3] = q[3]
            /\ \/ p[1] < q[1]
               \/ p[1] = q[1] /\ p[2] <= q[2]

find_longest_match(a, b, alo, ahi, blo, bhi) ==
  longest_block({<<p[1], p[2], common_run(a, b, p[1], p[2], ahi, bhi)>> :
                   p \in {q \in (alo..(ahi - 1)) \X (blo..(bhi - 1)) :
                            a[q[1] + 1] = b[q[2] + 1]}},
                alo, blo)

\* the sum of the sizes of get_matching_blocks()
RECURSIVE matches(_, _, _, _, _, _)
matches(a, b, alo, ahi, blo, bhi) ==
  \* m = <<i, j, k>>: the block a[i:i+k] = b[j:j+k], then the pieces to its
  \* left and to its right
  LET around(m) ==
        IF m[3] = 0 THEN 0
        ELSE m[3]
             + (IF alo < m[1] /\ blo < m[2]
                THEN matches(a, b, alo, m[1], blo, m[2]) ELSE 0)
             + (IF m[1] + m[3] < ahi /\ m[2] + m[3] < bhi
                THEN matches(a, b, m[1] + m[3], ahi, m[2] + m[3], bhi) ELSE 0)
  IN around(find_longest_match(a, b, alo, ahi, blo, bhi))

\* 2.0 * matches / length, 1.0 when both strings are empty
ratio(a, b) ==
  IF Len(a) + Len(b) = 0 THEN <<1, 1>>
  ELSE <<2 * matches(a, b, 0, Len(a), 0, Len(b)), Len(a) + Len(b)>>

\* comparisons of floats held as quotients
Gt(x, y) == x[1] * y[2] > y[1] * x[2]

Ge(x, y) == x[1] * y[2] >= y[1] * x[2]

Lt(x, y) == Gt(y, x)

----------------------------------------------------------------------------
(* match_employee_name *)

\* threshold: float = 0.7
DEFAULT_THRESHOLD == <<7, 10>>

ZERO == <<0, 1>>

ONE == <<1, 1>>

\* Python truth of an Optional[str]: neither None nor ""
Truthy(o) == ~IsNone(o) /\ Val(o) # <<>>

MatchResult(name, r) == [matched_name |-> name, match_ratio |-> r]

\* a first check that compares the normalized names case by case
RECURSIVE exact_scan_case_sensitive(_, _, _)
exact_scan_case_sensitive(name_norm, master_names, i) ==
  IF i > Len(master_names) THEN 0
  ELSE IF name_norm = normalize_name(master_names[i]) THEN i
  ELSE exact_scan_case_sensitive(name_norm, master_names, i + 1)

\* "First check": the first master name equal to the name once both are
\* normalized and lower-cased, as an index of master_names (0: none)
RECURSIVE exact_scan(_, _, _)
exact_scan(name_norm, master_names, i) ==
  IF i > Len(master_names) THEN 0
  ELSE IF lower(name_norm) = lower(normalize_name(master_names[i])) THEN i
  ELSE exact_scan(name_norm, master_names, i + 1)

\* one "for master_name in master_names" loop of the fuzzy checks, from
\* index i on, carrying best = [best_match, best_ratio]
\* "if ratio > best_ratio": the better of the best so far and master_name
keep_best(best, master_name, r) ==
  IF Gt(r, best.best_ratio)
  THEN [best_match |-> Some(master_name), best_ratio |-> r]
  ELSE best

RECURSIVE fuzzy_scan(_, _, _, _)
fuzzy_scan(candidate, master_names, i, best) ==
  IF i > Len(master_names) THEN best
  ELSE fuzzy_scan(candidate, master_names, i + 1,
         keep_best(best, master_names[i],
                   ratio(lower(candidate), lower(normalize_name(master_names[i])))))

\* a third check that tries the reversed name whatever the best ratio is
reversed_scan_unguarded(name_norm, master_names, threshold, best) ==
  IF fix_rtl_name(name_norm) # name_norm
  THEN fuzzy_scan(fix_rtl_name(name_norm), master_names, 1, best)
  ELSE best

\* "Third check": the reversed name, tried only below the threshold and only
\* when fix_rtl_name changes the normalized name
reversed_scan(name_norm, master_names, threshold, best) ==
  IF Lt(best.best_ratio, threshold)
  THEN LET retry(name_reversed) ==
             IF name_reversed # name_norm
             THEN fuzzy_scan(name_reversed, master_names, 1, best)
             ELSE best
       IN retry(fix_rtl_name(name_norm))
  ELSE best

\* a return that hands out the best name whatever its ratio
match_or_none_any(best, threshold) ==
  MatchResult(best.best_match, best.best_ratio)

\* "Return match only if above threshold": lines 144-147
match_or_none(best, threshold) ==
  IF Truthy(best.best_match) /\ Ge(best.best_ratio, threshold)
  THEN MatchResult(best.best_match, best.best_ratio)
  ELSE MatchResult(None, best.best_ratio)

\* the second and third checks: lines 121-147
fuzzy_match(name_norm, master_names, threshold) ==
  match_or_none(
    reversed_scan(name_norm, master_names, threshold,
                  fuzzy_scan(name_norm, master_names, 1,
                             [best_match |-> None, best_ratio |-> ZERO])),
    threshold)

\* the three checks on the normalized name: lines 115-147
match_normalized(name_norm, master_names, threshold) ==
  LET first(hit) ==
        IF hit # 0 THEN MatchResult(Some(master_names[hit]), ONE)
        ELSE fuzzy_match(name_norm, master_names, threshold)
  IN first(exact_scan(name_norm, master_names, 1))

\* a match_employee_name that returns at once for a null name only
match_employee_name_null_only(employee_name, master_names, threshold) ==
  IF IsNone(employee_name) \/ master_names = <<>> THEN MatchResult(None, ZERO)
  ELSE match_normalized(normalize_name(Val(employee_name)), master_names,
                        threshold)

\* lines 87-147
match_employee_name(employee_name, master_names, threshold) ==
  IF ~Truthy(employee_name) THEN MatchResult(None, ZERO)
  ELSE IF master_names = <<>> THEN MatchResult(None, ZERO)
  ELSE match_normalized(normalize_name(Val(employee_name)), master_names,
                        threshold)


----------------------------------------------------------------------------
(* get_best_name_match of export_to_excel.py *)

export_fix_rtl_name(name) ==
  IF name = <<>> THEN name
  ELSE IF \E i \in 1..Len(name) : IsHebrew(name[i]) THEN reversed(name)
  ELSE name

\* str(x).strip(), the three replace calls, ' '.join(x.split())
export_normalize(name) == strip(sub_spaces(sub_punctuation(strip(name))))

\* one "for master_name in master_names" loop: a name replaces the best one
\* when its ratio is higher and at least 0.7
export_keep_best(best, master_name, r) ==
  IF Gt(r, best.best_ratio) /\ Ge(r, <<7, 10>>)
  THEN [best_match |-> Some(master_name), best_ratio |-> r]
  ELSE best

RECURSIVE export_scan(_, _, _, _)
export_scan(candidate, master_names, i, best) ==
  IF i > Len(master_names) THEN best
  ELSE export_scan(candidate, master_names, i + 1,
         export_keep_best(best, master_names[i],
                       ratio(lower(candidate),
                             lower(export_normalize(master_names[i])))))

\* a get_best_name_match without the "**CHECK:" test of lines 36-37
export_get_best_name_match_unguarded(employee_name, master_names) ==
  IF ~Truthy(employee_name) \/ master_names = <<>>
  THEN IF master_names = <<>> /\ Truthy(employee_name)
       THEN Some(CHECK_PREFIX \o Val(employee_name))
       ELSE employee_name
  ELSE
    LET flag_or(best) ==
          IF Truthy(best.best_match) THEN best.best_match
          ELSE Some(CHECK_PREFIX \o Val(employee_name))
        second(name_norm, name_reversed, first) ==
          IF ~Truthy(first.best_match) /\ name_reversed # name_norm
          THEN export_scan(name_reversed, master_names, 1, first)
          ELSE first
        checks(name_norm) ==
          flag_or(second(name_norm, export_fix_rtl_name(name_norm),
                         export_scan(name_norm, master_names, 1,
                                  [best_match |-> None, best_ratio |-> ZERO])))
    IN checks(export_normalize(Val(employee_name)))

export_get_best_name_match(employee_name, master_names) ==
  IF Truthy(employee_name) /\ startswith(Val(employee_name), CHECK_MARK)
  THEN employee_name
  ELSE IF ~Truthy(employee_name) \/ master_names = <<>>
  THEN IF master_names = <<>> /\ Truthy(employee_name)
       THEN Some(CHECK_PREFIX \o Val(employee_name))
       ELSE employee_name
  ELSE
    LET flag_or(best) ==
          IF Truthy(best.best_match) THEN best.best_match
          ELSE Some(CHECK_PREFIX \o Val(employee_name))
        second(name_norm, name_reversed, first) ==
          IF ~Truthy(first.best_match) /\ name_reversed # name_norm
          THEN export_scan(name_reversed, master_names, 1, first)
          ELSE first
        checks(name_norm) ==
          flag_or(second(name_norm, export_fix_rtl_name(name_norm),
                         export_scan(name_norm, master_names, 1,
                                  [best_match |-> None, best_ratio |-> ZERO])))
    IN checks(export_normalize(Val(employee_name)))

----------------------------------------------------------------------------
(* get_best_name_match of google_sheets_updater.py *)

sheets_fix_rtl_name(name) ==
  IF name = <<>> THEN name
  ELSE IF \E i \in 1..Len(name) : IsHebrew(name[i]) THEN reversed(name)
  ELSE name

\* str(x).strip(), the three replace calls, ' '.join(x.split())
sheets_normalize(name) == strip(sub_spaces(sub_punctuation(strip(name))))

\* one "for master_name in master_names" loop: a name replaces the best one
\* when its ratio is higher and at least 0.7
sheets_keep_best(best, master_name, r) ==
  IF Gt(r, best.best_ratio) /\ Ge(r, <<7, 10>>)
  THEN [best_match |-> Some(master_name), best_ratio |-> r]
  ELSE best

RECURSIVE sheets_scan(_, _, _, _)
sheets_scan(candidate, master_names, i, best) ==
  IF i > Len(master_names) THEN best
  ELSE sheets_scan(candidate, master_names, i + 1,
         sheets_keep_best(best, master_names[i],
                       ratio(lower(candidate),
                             lower(sheets_normalize(master_names[i])))))

sheets_get_best_name_match(employee_name, master_names) ==
  IF Truthy(employee_name) /\ startswith(Val(employee_name), CHECK_MARK)
  THEN employee_name
  ELSE IF ~Truthy(employee_name) \/ master_names = <<>>
  THEN IF master_names = <<>> /\ Truthy(employee_name)
       THEN Some(CHECK_PREFIX \o Val(employee_name))
       ELSE employee_name
  ELSE
    LET flag_or(best) ==
          IF Truthy(best.best_match) THEN best.best_match
          ELSE Some(CHECK_PREFIX \o Val(employee_name))
        second(name_norm, name_reversed, first) ==
          IF ~Truthy(first.best_match) /\ name_reversed # name_norm
          THEN sheets_scan(name_reversed, master_names, 1, first)
          ELSE first
        checks(name_norm) ==
          flag_or(second(name_norm, sheets_fix_rtl_name(name_norm),
                         sheets_scan(name_norm, master_names, 1,
                                  [best_match |-> None, best_ratio |-> ZERO])))
    IN checks(sheets_normalize(Val(employee_name)))

\* the unified_name lambda of deduplicate_results
unified_name(x, employee_names) ==
  IF Truthy(x) /\ startswith(Val(x), CHECK_MARK) THEN x
  ELSE IF ~IsNone(x) THEN sheets_get_best_name_match(x, employee_names)
  ELSE x

----------------------------------------------------------------------------
(* validate_hours *)

\* tolerance_percent: float = 10.0
DEFAULT_TOLERANCE == 10

Abs(x) == IF x < 0 THEN -x ELSE x

\* Python floats are IEEE 754 doubles: 53 significant bits, every operation
\* rounded to the nearest double, halves to the even one. A positive double
\* is held as [m, e]: m its 53 bits, the first one 1, and e the exponent of
\* its last bit; the value is m * 2^e. Zero is [m |-> <<>>, e |-> 0].
MANT_DIG == 53

FloatZero == [m |-> <<>>, e |-> 0]

\* 2^k
pow2(k) == 2 ^ k

\* the number a sequence of at most 30 bits spells, the first bit the highest
RECURSIVE bits_value(_)
bits_value(bits) ==
  IF bits = <<>> THEN 0
  ELSE IF Len(bits) = 1 THEN bits[1]
  ELSE bits_value(SubSeq(bits, 1, Len(bits) \div 2))
         * pow2(Len(bits) - Len(bits) \div 2)
       + bits_value(SubSeq(bits, Len(bits) \div 2 + 1, Len(bits)))

\* the n lowest bits of the whole number v, the first bit the highest
value_bits(v, n) == [i \in 1..n |-> (v \div pow2(n - i)) % 2]

\* the number of bits of the whole number v < 2^30, none for 0
bit_length(v) ==
  CHOOSE n \in 0..30 : v < pow2(n) /\ (n = 0 \/ pow2(n - 1) <= v)

\* bits + 1, one bit longer when every bit is 1
increment(bits) ==
  IF \A i \in 1..Len(bits) : bits[i] = 1
  THEN <<1>> \o [i \in 1..Len(bits) |-> 0]
  ELSE LET last == CHOOSE i \in 1..Len(bits) :
                     bits[i] = 0 /\ \A j \in (i + 1)..Len(bits) : bits[j] = 1
       IN [i \in 1..Len(bits) |->
             IF i < last THEN bits[i] ELSE IF i = last THEN 1 ELSE 0]

\* bits, whose last bit has exponent e, and a remainder below its last bit
\* that is not zero when sticky: the nearest double
round_to_double(bits, e, sticky) ==
  LET keep == SubSeq(bits, 1, MANT_DIG)
      drop == SubSeq(bits, MANT_DIG + 1, Len(bits))
      up == /\ drop # <<>>
            /\ drop[1] = 1
            /\ \/ sticky
               \/ \E i \in 2..Len(drop) : drop[i] = 1
               \/ keep[MANT_DIG] = 1
      carried(sum) ==
        IF Len(sum) > MANT_DIG
        THEN [m |-> SubSeq(sum, 1, MANT_DIG), e |-> e + Len(drop) + 1]
        ELSE [m |-> sum, e |-> e + Len(drop)]
  IN IF up THEN carried(increment(keep))
     ELSE [m |-> keep, e |-> e + Len(drop)]

\* the least j >= k with den * 2^j > num
scale_of(num, den, k) ==
  CHOOSE j \in k..30 :
    den * pow2(j) > num /\ (j = k \/ den * pow2(j - 1) <= num)

\* long division of r by den, 0 < r < den: the zero bits before the first 1,
\* counted from z
leading_zeros(r, den, z) ==
  CHOOSE j \in z..30 :
    2 * r * pow2(j - z) >= den /\ (j = z \/ r * pow2(j - z) < den)

\* the next n bits of r / den, or up to nine more, and the remainder left
\* after them: ten bits a step, for den < 2^21
RECURSIVE quotient_bits(_, _, _, _)
quotient_bits(r, den, n, acc) ==
  IF n <= 0 THEN [bits |-> acc, rest |-> r]
  ELSE quotient_bits((r * 1024) % den, den, n - 10,
                     acc \o value_bits((r * 1024) \div den, 10))

\* num / den as a double, for whole numbers num >= 0 and den > 0
float_div(num, den) ==
  IF num = 0 THEN FloatZero
  ELSE LET rounded(k, z, q) ==
             round_to_double(q.bits, k - z - Len(q.bits), q.rest # 0)
           from(k, den_k, z) ==
             rounded(k, z, quotient_bits(num * pow2(z), den_k, MANT_DIG + 1, <<>>))
           scaled(k) ==
             from(k, den * pow2(k), leading_zeros(num, den * pow2(k), 0))
       IN scaled(scale_of(num, den, 0))

\* bits * c for a small whole number c > 0, sixteen bits a step from the
\* last bit on
RECURSIVE times_bits(_, _, _, _)
times_bits(bits, c, carry, acc) ==
  IF bits = <<>> THEN value_bits(carry, bit_length(carry)) \o acc
  ELSE LET n == IF Len(bits) < 16 THEN Len(bits) ELSE 16
           product ==
             bits_value(SubSeq(bits, Len(bits) - n + 1, Len(bits))) * c + carry
       IN times_bits(SubSeq(bits, 1, Len(bits) - n), c, product \div pow2(n),
                     value_bits(product % pow2(n), n) \o acc)

\* x * c as a double
float_times(x, c) ==
  IF x.m = <<>> THEN FloatZero
  ELSE round_to_double(times_bits(x.m, c, 0, <<>>), x.e, FALSE)

\* a + b for bit sequences of one length, sixteen bits a step from the last
\* bit on
RECURSIVE plus_bits(_, _, _, _)
plus_bits(a, b, carry, acc) ==
  IF a = <<>> THEN (IF carry = 1 THEN <<1>> ELSE <<>>) \o acc
  ELSE LET n == IF Len(a) < 16 THEN Len(a) ELSE 16
           sum == bits_value(SubSeq(a, Len(a) - n + 1, Len(a)))
                  + bits_value(SubSeq(b, Len(b) - n + 1, Len(b))) + carry
       IN plus_bits(SubSeq(a, 1, Len(a) - n), SubSeq(b, 1, Len(b) - n),
                    sum \div pow2(n), value_bits(sum % pow2(n), n) \o acc)

\* the bits of the double x > 0 from the bit of exponent top - 1 down to the
\* bit of exponent e
aligned(x, e, top) ==
  [i \in 1..(top - e) |->
     IF i <= top - (Len(x.m) + x.e) \/ i > top - x.e THEN 0
     ELSE x.m[i - (top - (Len(x.m) + x.e))]]

\* x + y as a double, for doubles x, y >= 0
float_plus(x, y) ==
  IF x.m = <<>> THEN y
  ELSE IF y.m = <<>> THEN x
  ELSE LET e == IF x.e < y.e THEN x.e ELSE y.e
           top == IF Len(x.m) + x.e > Len(y.m) + y.e
                  THEN Len(x.m) + x.e ELSE Len(y.m) + y.e
           first(sum) == CHOOSE i \in 1..Len(sum) :
                           sum[i] = 1 /\ \A j \in 1..(i - 1) : sum[j] = 0
           rounded(sum) ==
             round_to_double(SubSeq(sum, first(sum), Len(sum)), e, FALSE)
       IN rounded(plus_bits(aligned(x, e, top), aligned(y, e, top), 0, <<>>))

\* x > y for doubles x, y >= 0
float_gt(x, y) ==
  IF x.m = <<>> THEN FALSE
  ELSE IF y.m = <<>> THEN TRUE
  ELSE LET e == IF x.e < y.e THEN x.e ELSE y.e
           top == IF Len(x.m) + x.e > Len(y.m) + y.e
                  THEN Len(x.m) + x.e ELSE Len(y.m) + y.e
           above(a, b) ==
             \E i \in 1..Len(a) :
               a[i] > b[i] /\ \A j \in 1..(i - 1) : a[j] = b[j]
       IN above(aligned(x, e, top), aligned(y, e, top))

\* the whole part of a double x below 2^31, and whether a fraction is left
float_floor(x) ==
  IF x.m = <<>> THEN [whole |-> 0, fraction |-> <<>>]
  ELSE IF Len(x.m) + x.e <= 0
  THEN [whole |-> 0,
        fraction |-> [i \in 1..(-x.e) |->
                        IF i <= -x.e - Len(x.m) THEN 0
                        ELSE x.m[i - (-x.e - Len(x.m))]]]
  ELSE [whole |-> bits_value(SubSeq(x.m, 1, Len(x.m) + x.e)),
        fraction |-> SubSeq(x.m, Len(x.m) + x.e + 1, Len(x.m))]

\* x <= t for a double x and a whole number t
float_le(x, t) ==
  LET le(f) == \/ f.whole < t
               \/ f.whole = t /\ \A i \in 1..Len(f.fraction) : f.fraction[i] = 0
  IN le(float_floor(x))

\* f"{x:.1f}": the double x shown with one decimal, in tenths; the digits
\* are those of the exact value, halves to the even one
format_1f(x) ==
  LET shown(f) ==
        IF f.fraction = <<>> \/ f.fraction[1] = 0 THEN f.whole
        ELSE IF \E i \in 2..Len(f.fraction) : f.fraction[i] = 1 THEN f.whole + 1
        ELSE IF f.whole % 2 = 0 THEN f.whole ELSE f.whole + 1
      tenths(bits) == shown(float_floor([m |-> bits, e |-> x.e]))
  IN IF x.m = <<>> THEN 0 ELSE tenths(times_bits(x.m, 10, 0, <<>>))

\* line 167: (deviation / standard_hours) * 100
deviation_percent_of(deviation, standard_hours) ==
  float_times(float_div(deviation, standard_hours), 100)

\* line 163: "reported_hours is None or standard_hours <= 0"
cannot_validate(reported_hours, standard_hours) ==
  IsNone(reported_hours) \/ standard_hours <= 0

\* a tolerance test that leaves the boundary out
within_tolerance_strict(deviation_percent, tolerance_percent) ==
  float_le(deviation_percent, tolerance_percent)
    /\ deviation_percent # float_times(float_div(tolerance_percent, 1), 1)

\* line 169: "deviation_percent <= tolerance_percent"
within_tolerance(deviation_percent, tolerance_percent) ==
  float_le(deviation_percent, tolerance_percent)

\* The status is "No validation", "OK" or the irregular-hours message, held
\* as its kind and the percentage it shows with one decimal, in tenths.
\* lines 166-172: the hours can be validated
judge_hours(reported_hours, standard_hours, tolerance_percent) ==
  LET judged(deviation_percent) ==
        IF within_tolerance(deviation_percent, tolerance_percent)
        THEN [is_valid |-> TRUE, status |-> "OK", deviation_percent |-> 0]
        ELSE [is_valid |-> FALSE, status |-> "Irregular Hours",
              deviation_percent |-> format_1f(deviation_percent)]
  IN judged(deviation_percent_of(Abs(Val(reported_hours) - standard_hours),
                                 standard_hours))

\* a validate_hours that reports hours without a standard as irregular
validate_hours_without_standard(reported_hours, standard_hours, tolerance_percent) ==
  IF IsNone(reported_hours)
  THEN [is_valid |-> TRUE, status |-> "No validation", deviation_percent |-> 0]
  ELSE IF standard_hours <= 0
  THEN [is_valid |-> FALSE, status |-> "Irregular Hours", deviation_percent |-> 0]
  ELSE judge_hours(reported_hours, standard_hours, tolerance_percent)

validate_hours(reported_hours, standard_hours, tolerance_percent) ==
  IF cannot_validate(reported_hours, standard_hours)
  THEN [is_valid |-> TRUE, status |-> "No validation", deviation_percent |-> 0]
  ELSE judge_hours(reported_hours, standard_hours, tolerance_percent)

----------------------------------------------------------------------------
(* validate_and_unify_data: the state of one call *)

VARIABLES
  master_file,        \* master_employee.json as it is on disk
  MASTER_DATA,        \* _MASTER_DATA: None, or what json.load returned
  MASTER_EMPLOYEE_DICT, \* _MASTER_EMPLOYEE_DICT: None, or the lookup dict
  master_dict,        \* what get_master_employee_dict() returned: the roster,
                      \* in insertion order
  all_results,        \* the batch passed in; each record owns its report_summary
  given,              \* the batch as it was when the call began
  validated_results,  \* the list being built
  seen_names,         \* normalized names already output
  idx,                \* records of the batch already processed
  pc,                 \* "loop" while the for loop runs, "done" after return,
                      \* "idle" when no call of validate_and_unify_data runs
  call,               \* a call of one of the matching functions: its arguments
  ret                 \* what the call returned, None until it has

\* what no step of the loop changes
call_vars == <<given, call, ret>>

\* the roster file and the module's cache of it
roster_vars == <<master_file, MASTER_DATA, MASTER_EMPLOYEE_DICT>>

vars == <<roster_vars, master_dict, all_results, given, validated_results, seen_names, idx,
          pc, call, ret>>

\* the well-known metric keys of a report summary
Metrics == {"total_presence_hours", "total_approved_hours",
            "total_payable_hours", "overtime_hours", "vacation_days",
            "sick_days"}

\* the keys apply_vacation_completion adds to a summary: lines 444-445
AuditKeys == {"original_presence_hours", "auto_completed_hours"}

SummaryKeys == Metrics \cup AuditKeys

\* list(master_dict.keys())
RECURSIVE keys(_)
keys(d) == IF d = <<>> THEN <<>> ELSE <<Head(d).employee_name>> \o keys(Tail(d))

\* master_dict.get(name, {}): the entry of that name, as an Optional
dict_get(d, name) ==
  IF \E i \in 1..Len(d) : d[i].employee_name = name
  THEN Some(d[CHOOSE i \in 1..Len(d) : d[i].employee_name = name])
  ELSE None

\* isinstance(report_summary, dict): a mapping is Some(summary); a value that
\* is neither null nor a mapping (a string, a list) has two components
IsMapping(report_summary) == Len(report_summary) = 1

\* isinstance(value, (int, float)): a number is Some(n); a value that is
\* neither null nor a number (a non-empty string) has two components
IsNumber(value) == Len(value) = 1

\* Python's "x or y" on metric values: None and 0 are false
py_or(x, y) == IF IsNone(x) \/ x = Some(0) THEN y ELSE x

\* summary.get("total_presence_hours") or summary.get("total_approved_hours")
get_reported_hours(report_summary) ==
  py_or(report_summary["total_presence_hours"],
        report_summary["total_approved_hours"])

\* result.get("report_summary") or {}
EmptySummary == [k \in SummaryKeys |-> None]

\* lines 213-215
local_summary(result) ==
  IF IsMapping(result.report_summary) THEN Val(result.report_summary)
  ELSE EmptySummary

\* a merge in which the later record's value always wins
merge_summaries_last_wins(existing_summary, new_summary) ==
  [key \in SummaryKeys |->
     IF ~IsNone(new_summary[key]) THEN new_summary[key]
     ELSE existing_summary[key]]

\* a merge that compares values and never fills a null
merge_summaries_no_fill(existing_summary, new_summary) ==
  [key \in SummaryKeys |->
     IF /\ ~IsNone(new_summary[key]) /\ ~IsNone(existing_summary[key])
        /\ Val(new_summary[key]) > Val(existing_summary[key])
     THEN new_summary[key]
     ELSE existing_summary[key]]

\* "Keep higher value for each key": lines 240-244
merge_summaries(existing_summary, new_summary) ==
  [key \in SummaryKeys |->
     LET new_val == new_summary[key]
         existing_val == existing_summary[key]
     IN IF ~IsNone(new_val)
           /\ (\/ IsNone(existing_val)
               \/ IsNumber(new_val) /\ Val(new_val) > Val(existing_val))
        THEN new_val
        ELSE existing_val]

\* lines 237-243: the merge raises an exception. new_summary.items() needs a
\* mapping, existing_summary.get(key) is called for every non-null new value,
\* and a new number is compared with the existing value, which must be a
\* number for ">"
merge_raises(existing_summary, new_summary) ==
  IF ~IsMapping(new_summary) THEN TRUE
  ELSE IF ~IsMapping(existing_summary)
  THEN \E key \in SummaryKeys : ~IsNone(Val(new_summary)[key])
  ELSE \E key \in SummaryKeys :
         /\ ~IsNone(Val(new_summary)[key])
         /\ ~IsNone(Val(existing_summary)[key])
         /\ IsNumber(Val(new_summary)[key])
         /\ ~IsNumber(Val(existing_summary)[key])

\* lines 236-244: the report_summary of the existing entry after the merge;
\* without a mapping there is nothing to write to
merged_summary(existing_summary, new_summary) ==
  IF IsMapping(existing_summary)
  THEN Some(merge_summaries(Val(existing_summary), Val(new_summary)))
  ELSE existing_summary

\* the keys whose merge does not raise
mergeable_keys(existing_summary, new_summary) ==
  { key \in SummaryKeys :
      \/ IsNone(new_summary[key])
      \/ IsNone(existing_summary[key])
      \/ ~IsNumber(new_summary[key])
      \/ IsNumber(existing_summary[key]) }

\* lines 240-244 for the keys of done only: what the merge has written when
\* an exception ends it
partly_merged(existing_summary, new_summary, done) ==
  [key \in SummaryKeys |->
     IF key \in done
     THEN merge_summaries(existing_summary, new_summary)[key]
     ELSE existing_summary[key]]

\* the index of the first entry of validated_results whose normalized,
\* lower-cased name is norm_name (0: none)
RECURSIVE find_existing(_, _, _)
find_existing(results, norm_name, i) ==
  IF i > Len(results) THEN 0
  ELSE IF lower(normalize_name(results[i].employee_name)) = norm_name THEN i
  ELSE find_existing(results, norm_name, i + 1)

\* a duplicate check that never finds the name
seen_before_never(norm_name, seen) == FALSE

\* line 230: "if norm_name in seen_names"
seen_before(norm_name, seen) == norm_name \in seen

\* the report_summary a row of validated_results holds: result.copy() is a
\* shallow copy, so the row shares the mapping of the record it came from
summary_of(results, row) == results[row.src].report_summary

----------------------------------------------------------------------------
(* apply_vacation_completion: hours and days are whole thousandths, so that *)
(* 8.6 hours a day and the two decimals the code rounds to are integers     *)

\* line 394: 8.6 hours
HOURS_PER_VACATION_DAY == 8600

\* the integer nearest to num / den (den > 0, num >= 0), a tie to the even one
round_half_even(num, den) ==
  LET q == num \div den
      r == num % den
  IN IF 2 * r < den THEN q
     ELSE IF 2 * r > den THEN q + 1
     ELSE IF q % 2 = 0 THEN q ELSE q + 1

\* round(x, 2) of x = num / den thousandths, in thousandths
round_2(num, den) == 10 * round_half_even(num, den * 10)

\* a completion that books every missing hour, whatever vacation is left
hours_to_use_all_needed(hours_needed, vacation_hours_available) == hours_needed

\* line 436: min(hours_needed, vacation_hours_available)
hours_to_use(hours_needed, vacation_hours_available) ==
  IF hours_needed <= vacation_hours_available THEN hours_needed
  ELSE vacation_hours_available

\* lines 416-418: the standard hours of the matched name, None without a match
vacation_standard_hours(m, d) ==
  IF Truthy(m.matched_name)
  THEN LET standard(entry) ==
             IF IsNone(entry) THEN None ELSE Some(Val(entry).standard_hours)
       IN standard(dict_get(d, Val(m.matched_name)))
  ELSE None

\* lines 420-432 and 438: the checks a summary passes before it is completed
needs_completion(report_summary, standard_hours) ==
  LET reported_hours == report_summary["total_presence_hours"]
      vacation_days == report_summary["vacation_days"]
  IN /\ ~IsNone(standard_hours)
     /\ Val(standard_hours) > 0
     /\ ~IsNone(reported_hours)
     /\ ~IsNone(vacation_days)
     /\ Val(reported_hours) < Val(standard_hours)
     /\ Val(vacation_days) > 0

\* lines 434-447: the summary once vacation hours complete the presence; the
\* products are in millionths of an hour
completed_summary(report_summary, standard_hours) ==
  LET reported_hours == Val(report_summary["total_presence_hours"])
      vacation_hours_available ==
        Val(report_summary["vacation_days"]) * HOURS_PER_VACATION_DAY
      used == hours_to_use((standard_hours - reported_hours) * 1000,
                           vacation_hours_available)
  IN [report_summary EXCEPT
        !["original_presence_hours"] = Some(reported_hours),
        !["auto_completed_hours"] = Some(round_2(used, 1000)),
        !["total_presence_hours"] =
          Some(round_2(reported_hours * 1000 + used, 1000)),
        !["vacation_days"] =
          Some(round_2(vacation_hours_available - used, HOURS_PER_VACATION_DAY))]

----------------------------------------------------------------------------
(* The inputs of validate_and_unify_data *)

\* the longest batch
MaxBatch == 3

NAME_a_b == <<97, 32, 98>>                    \* "a b"
NAME_A_dash_b == <<65, 45, 98>>               \* "A-b": "a b" once normalized
NAME_a_bc == <<97, 32, 98, 99>>               \* "a bc": ratio 6/7 to "a b"
NAME_cd == <<99, 100>>                        \* "cd"
NAME_xy == <<120, 121>>                       \* "xy": like no roster name
NAME_alef_bet == <<1488, 1489>>               \* alef bet
NAME_bet_alef == <<1489, 1488>>               \* bet alef: alef bet reversed

\* _MASTER_EMPLOYEE_DICT as load_master_data builds it: stripped, non-empty,
\* pairwise different names
Rosters ==
  { << [employee_name |-> NAME_a_b, company_name |-> "Acme", standard_hours |-> 160],
       [employee_name |-> NAME_cd, company_name |-> "Bolt", standard_hours |-> 100],
       [employee_name |-> NAME_alef_bet, company_name |-> "Acme", standard_hours |-> 160] >>,
    << [employee_name |-> NAME_a_b, company_name |-> "Acme", standard_hours |-> 160],
       [employee_name |-> NAME_A_dash_b, company_name |-> "Bolt", standard_hours |-> 100] >> }

Periods == {"2024-01", "2024-02"}

Summary(presence, overtime) ==
  [k \in SummaryKeys |-> IF k = "total_presence_hours" THEN presence
                     ELSE IF k = "overtime_hours" THEN overtime
                     ELSE None]

RawRecord(name, id, period, summary) ==
  [employee_name |-> name, employee_id |-> id, report_period |-> period,
   report_summary |-> Some(summary)]

\* records that differ in name and period
IdentityRecords ==
  { RawRecord(n, None, p, Summary(Some(150), None)) :
      n \in {Some(NAME_a_b), Some(NAME_A_dash_b), Some(NAME_a_bc), Some(NAME_cd),
             Some(NAME_xy), Some(NAME_bet_alef), Some(CHECK_PREFIX \o NAME_xy),
             None},
      p \in Periods }

\* records of one period that differ in identifier and metrics
MergeRecords ==
  { RawRecord(Some(NAME_a_b), id, "2024-01", Summary(presence, overtime)) :
      id \in {None, Some("77")},
      presence \in {None, Some(150), Some(160)},
      overtime \in {None, Some(5)} }
  \cup
  { RawRecord(Some(n), None, "2024-01", sm) :
      n \in {NAME_cd, NAME_xy},
      sm \in {Summary(Some(160), None), Summary(None, Some(5))} }

BatchesOf(records) ==
  UNION { [1..n -> records] : n \in 0..MaxBatch }

Batches == BatchesOf(IdentityRecords) \cup BatchesOf(MergeRecords)

\* records with a null name, an empty name and names of one period; the
\* nameless ones have the largest metrics
SkipRecords ==
  { RawRecord(n, None, "2024-01", sm) :
      n \in {Some(NAME_a_b), Some(NAME_xy)},
      sm \in {Summary(Some(150), None), Summary(Some(160), Some(5))} }
  \cup
  { RawRecord(n, None, "2024-01", sm) :
      n \in {None, Some(<<>>)},
      sm \in {Summary(Some(170), Some(9)), Summary(None, None)} }

\* a report_summary that is not a mapping and a metric value that is not a
\* number
NOT_A_MAPPING == <<0, 0>>

NOT_A_NUMBER == <<0, 0>>

\* records as the parser makes them
WellFormedRecords ==
  { RawRecord(Some(n), None, "2024-01", sm) :
      n \in {NAME_a_b, NAME_xy},
      sm \in {Summary(Some(150), None), Summary(None, Some(5))} }

\* a missing name, a report_summary that is null or not a mapping, a metric
\* value that is not a number
MalformedRecords ==
  { RawRecord(None, None, "2024-01", Summary(Some(150), None)) }
  \cup
  { [employee_name |-> Some(n), employee_id |-> None,
     report_period |-> "2024-01", report_summary |-> sm] :
      n \in {NAME_a_b, NAME_xy},
      sm \in {None, NOT_A_MAPPING,
              Some(Summary(NOT_A_NUMBER, None)),
              Some(Summary(Some(150), NOT_A_NUMBER))} }

\* the batches that have at most one malformed record
MalformedBatches ==
  { b \in BatchesOf(WellFormedRecords \cup MalformedRecords) :
      Cardinality({i \in 1..Len(b) : b[i] \in MalformedRecords}) <= 1 }

\* the longest batch given to apply_vacation_completion
MaxVacationBatch == 2

\* get_master_employee_dict() with standard hours in thousandths: 160, 160.333
\* and an employee without standard hours
VacationRosters ==
  { << [employee_name |-> NAME_a_b, company_name |-> "Acme", standard_hours |-> 160000],
       [employee_name |-> NAME_cd, company_name |-> "Bolt", standard_hours |-> 160333],
       [employee_name |-> NAME_alef_bet, company_name |-> "Acme", standard_hours |-> 0] >>,
    << [employee_name |-> NAME_a_b, company_name |-> "Acme", standard_hours |-> 160000],
       [employee_name |-> NAME_cd, company_name |-> "Bolt", standard_hours |-> 160667] >> }

VacationSummary(presence, vacation_days) ==
  [k \in SummaryKeys |-> IF k = "total_presence_hours" THEN presence
                         ELSE IF k = "vacation_days" THEN vacation_days
                         ELSE None]

\* presence of 150, 150.004 and 170 hours, one and five vacation days
VacationRecords ==
  { RawRecord(Some(n), None, "2024-01", VacationSummary(presence, vacation_days)) :
      n \in {NAME_a_b, NAME_cd, NAME_bet_alef, NAME_xy},
      presence \in {None, Some(150000), Some(150004), Some(170000)},
      vacation_days \in {None, Some(0), Some(1000), Some(5000)} }
  \cup
  { RawRecord(None, None, "2024-01", VacationSummary(Some(150000), Some(5000))),
    [employee_name |-> Some(NAME_a_b), employee_id |-> None,
     report_period |-> "2024-01", report_summary |-> None] }

VacationBatches ==
  UNION { [1..n -> VacationRecords] : n \in 0..MaxVacationBatch }

\* the most reports a run of main.py parses
MaxReports == 2

\* the roster of a run of main.py, standard hours of 160 and 100 in
\* thousandths
PipelineRosters ==
  { << [employee_name |-> NAME_a_b, company_name |-> "Acme", standard_hours |-> 160000],
       [employee_name |-> NAME_cd, company_name |-> "Bolt", standard_hours |-> 100000] >> }

\* ALL_RESULTS: presence of 140 and 170 hours, five vacation days
PipelineRecords ==
  { RawRecord(n, None, "2024-01", VacationSummary(presence, vacation_days)) :
      n \in {Some(NAME_a_b), Some(NAME_xy), None},
      presence \in {None, Some(140000), Some(170000)},
      vacation_days \in {None, Some(5000)} }

PipelineBatches ==
  UNION { [1..n -> PipelineRecords] : n \in 0..MaxReports }

\* records of one period with or without presence hours, zero included, and
\* with or without approved hours, and one without a name; "a b" and "A-b"
\* are one roster name
HoursRecords ==
  { RawRecord(Some(n), None, "2024-01",
              [Summary(presence, None) EXCEPT !["total_approved_hours"] = approved]) :
      n \in {NAME_a_b, NAME_A_dash_b, NAME_xy},
      presence \in {None, Some(0), Some(150), Some(160)},
      approved \in {None, Some(140)} }
  \cup { RawRecord(None, None, "2024-01", Summary(Some(150), None)) }

HoursBatches ==
  UNION { [1..n -> HoursRecords] : n \in 0..MaxReports }

(* The roster file and the cache of it: load_master_data and             *)
(* get_master_employee_dict                                               *)

\* Path(master_file).exists() is false
MISSING == [state |-> "missing", master_employees |-> <<>>]

\* the file exists; open() or json.load raises
UNREADABLE == [state |-> "unreadable", master_employees |-> <<>>]

\* the file holds a JSON object with the list master_employees; an entry is
\* Some(object), a null entry is None
RosterFile(entries) == [state |-> "readable", master_employees |-> entries]

\* an object of master_employees: a name, and a company and standard hours
\* that may be absent
Entry(name, company, hours) ==
  Some([employee_name |-> name, company_name |-> company, standard_hours |-> hours])

\* emp.get(key, default)
get_or(value, default) == IF IsNone(value) THEN default ELSE Val(value)

\* _MASTER_EMPLOYEE_DICT[name] = info: a known key keeps its place
dict_set(d, info) ==
  IF \E i \in 1..Len(d) : d[i].employee_name = info.employee_name
  THEN [i \in 1..Len(d) |->
          IF d[i].employee_name = info.employee_name THEN info ELSE d[i]]
  ELSE Append(d, info)

\* lines 39-45: the loop over master_employees, up to the end of the list or
\* to the entry at which emp.get raises
RECURSIVE build_dict(_, _)
build_dict(entries, d) ==
  IF entries = <<>> THEN [raised |-> FALSE, dict |-> d]
  ELSE IF IsNone(Head(entries)) THEN [raised |-> TRUE, dict |-> d]
  ELSE LET emp == Val(Head(entries))
           name == strip(emp.employee_name)
       IN build_dict(Tail(entries),
                     IF name # <<>>
                     THEN dict_set(d, [employee_name |-> name,
                                       company_name |-> get_or(emp.company_name, ""),
                                       standard_hours |-> get_or(emp.standard_hours, 0)])
                     ELSE d)

\* what a call leaves in the two globals, what it returns, and how it ended:
\* "cached" without a look at the file, "missing", "error" (the except
\* branch) or "loaded"
Loading(data, dict, value, outcome) ==
  [MASTER_DATA |-> data, MASTER_EMPLOYEE_DICT |-> dict, value |-> value,
   outcome |-> outcome]

\* lines 36-53: the file is there; value is the list master_employees of the
\* object returned
read_master_file(file, dict) ==
  IF file.state = "unreadable" THEN Loading(None, dict, <<>>, "error")
  ELSE LET built == build_dict(file.master_employees, <<>>)
       IN IF built.raised
          THEN Loading(Some(file.master_employees), Some(built.dict), <<>>, "error")
          ELSE Loading(Some(file.master_employees), Some(built.dict),
                       file.master_employees, "loaded")

\* lines 20-53, load_master_data()
load_master_data(file, data, dict) ==
  IF ~IsNone(data) THEN Loading(data, dict, Val(data), "cached")
  ELSE IF file.state = "missing" THEN Loading(data, dict, <<>>, "missing")
  ELSE read_master_file(file, dict)

\* lines 56-60, get_master_employee_dict(): value is the dict returned
get_master_employee_dict(file, data, dict) ==
  LET dict_or_empty(l) ==
        Loading(l.MASTER_DATA, l.MASTER_EMPLOYEE_DICT,
                get_or(l.MASTER_EMPLOYEE_DICT, <<>>), l.outcome)
  IN IF IsNone(dict) THEN dict_or_empty(load_master_data(file, data, dict))
     ELSE Loading(data, dict, Val(dict), "cached")

\* master_employees of a file from which load_master_data builds the dict d
file_of(d) ==
  [i \in 1..Len(d) |->
     Entry(d[i].employee_name, Some(d[i].company_name), Some(d[i].standard_hours))]

\* the roster file as it may be found: not there, not readable, two
\* different rosters (one with a padded name, a nameless entry and a name
\* given twice), and a roster whose second entry is null
RosterFiles ==
  { MISSING, UNREADABLE,
    RosterFile(<< Entry(NAME_a_b, Some("Acme"), Some(160)),
                  Entry(<<32>> \o NAME_cd \o <<32>>, Some("Bolt"), Some(100)),
                  Entry(<<>>, Some("Acme"), Some(160)),
                  Entry(NAME_cd, None, None) >>),
    RosterFile(<< Entry(NAME_cd, Some("Bolt"), Some(100)) >>),
    RosterFile(<< Entry(NAME_a_b, Some("Acme"), Some(160)),
                  None,
                  Entry(NAME_cd, Some("Bolt"), Some(100)) >>) }

\* every dict get_master_employee_dict can return for these files
FileRosters ==
  { get_master_employee_dict(f, None, None).value : f \in RosterFiles }

\* calls of load_master_data and get_master_employee_dict before the batch
\* is unified
MaxLoads == 2

\* the batch of a run whose roster comes from the file
RosterRecords ==
  { RawRecord(n, None, "2024-01", Summary(Some(150), None)) :
      n \in {Some(NAME_a_b), Some(NAME_xy), None} }

RosterBatches ==
  UNION { [1..n -> RosterRecords] : n \in 0..MaxReports }

\* line 218, match_employee_name(employee_name, master_names), for every roster
\* and every name of the batches
match_table ==
  [d \in Rosters \cup VacationRosters \cup PipelineRosters \cup FileRosters |->
     [n \in {r.employee_name :
               r \in IdentityRecords \cup MergeRecords \cup SkipRecords
                     \cup WellFormedRecords
                     \cup VacationRecords \cup PipelineRecords} |->
        match_employee_name(n, keys(d), DEFAULT_THRESHOLD)]]

----------------------------------------------------------------------------
(* validate_and_unify_data: the for loop, one record a step *)

\* the roster was loaded before the call: master_dict is the cached dict
Loaded ==
  /\ master_file = RosterFile(file_of(master_dict))
  /\ MASTER_DATA = Some(file_of(master_dict))
  /\ MASTER_EMPLOYEE_DICT = Some(master_dict)

\* no call has looked for the roster file
NotLoaded ==
  /\ master_file = MISSING
  /\ MASTER_DATA = None
  /\ MASTER_EMPLOYEE_DICT = None

\* the record the loop is at
Current == all_results[idx + 1]

CurrentMatch == match_table[master_dict][Current.employee_name]

InLoop == pc = "loop" /\ idx < Len(all_results)

\* a record without a name ends the loop
BreakNoName ==
  /\ InLoop
  /\ ~Truthy(Current.employee_name)
  /\ idx' = Len(all_results)
  /\ UNCHANGED <<roster_vars, master_dict, all_results, validated_results, seen_names, pc>>
  /\ UNCHANGED call_vars

\* lines 209-211: no employee name, the record is skipped
SkipNoName ==
  /\ InLoop
  /\ ~Truthy(Current.employee_name)
  /\ idx' = idx + 1
  /\ UNCHANGED <<roster_vars, master_dict, all_results, validated_results, seen_names, pc>>
  /\ UNCHANGED call_vars

\* lines 230-246: a matched name seen before, merged into the first entry of
\* validated_results that has its normalized name
MergeDuplicate ==
  /\ InLoop
  /\ Truthy(Current.employee_name)
  /\ \E m \in {CurrentMatch} :
       /\ Truthy(m.matched_name)
       /\ \E norm_name \in {lower(normalize_name(Val(m.matched_name)))} :
            /\ seen_before(norm_name, seen_names)
            /\ \E e \in {find_existing(validated_results, norm_name, 1)} :
                 IF e = 0 THEN all_results' = all_results
                 ELSE /\ ~merge_raises(summary_of(all_results, validated_results[e]),
                                       Current.report_summary)
                      /\ all_results' =
                           [all_results EXCEPT
                              ![validated_results[e].src].report_summary =
                                merged_summary(
                                  summary_of(all_results, validated_results[e]),
                                  Current.report_summary)]
  /\ idx' = idx + 1
  /\ UNCHANGED <<roster_vars, master_dict, validated_results, seen_names, pc>>
  /\ UNCHANGED call_vars

\* lines 222-224: company_name and standard_hours of the matched name
master_info(matched_name) ==
  LET info(entry) ==
        IF IsNone(entry) THEN [company_name |-> "", standard_hours |-> 0]
        ELSE [company_name |-> Val(entry).company_name,
              standard_hours |-> Val(entry).standard_hours]
  IN info(dict_get(master_dict, matched_name))

\* lines 259-266: the validated result of a matched record
matched_row(src, result, m, info, reported_hours, v) ==
  [src |-> src,
   employee_name |-> Val(m.matched_name),
   employee_id |-> result.employee_id,
   report_period |-> result.report_period,
   company_name |-> info.company_name,
   standard_hours |-> Some(info.standard_hours),
   reported_hours |-> reported_hours,
   hours_status |-> v.status,
   deviation_percent |-> v.deviation_percent,
   match_ratio |-> m.match_ratio]

\* lines 163-166: abs(reported_hours - standard_hours) raises a TypeError for
\* reported hours that are not a number
validate_hours_raises(reported_hours, standard_hours) ==
  /\ ~IsNone(reported_hours)
  /\ standard_hours > 0
  /\ ~IsNumber(reported_hours)

\* lines 248-268: a matched name seen for the first time
AppendMatched ==
  /\ InLoop
  /\ Truthy(Current.employee_name)
  /\ \E m \in {CurrentMatch} :
       /\ Truthy(m.matched_name)
       /\ \E norm_name \in {lower(normalize_name(Val(m.matched_name)))} :
            /\ ~seen_before(norm_name, seen_names)
            /\ seen_names' = seen_names \cup {norm_name}
       /\ \E info \in {master_info(Val(m.matched_name))},
             reported_hours \in {get_reported_hours(local_summary(Current))} :
            /\ ~validate_hours_raises(reported_hours, info.standard_hours)
            /\ validated_results' = Append(validated_results,
                 matched_row(idx + 1, Current, m, info, reported_hours,
                             validate_hours(reported_hours, info.standard_hours,
                                            DEFAULT_TOLERANCE)))
  /\ idx' = idx + 1
  /\ UNCHANGED <<roster_vars, master_dict, all_results, pc>>
  /\ UNCHANGED call_vars

\* an unmatched record output under its raw name
unmatched_row_unflagged(src, result, m) ==
  [src |-> src,
   employee_name |-> Val(result.employee_name),
   employee_id |-> result.employee_id,
   report_period |-> result.report_period,
   company_name |-> "",
   standard_hours |-> None,
   reported_hours |-> get_reported_hours(local_summary(result)),
   hours_status |-> "Unmatched",
   deviation_percent |-> 0,
   match_ratio |-> m.match_ratio]

\* lines 278-284: the validated result of an unmatched record
unmatched_row(src, result, m) ==
  [src |-> src,
   employee_name |-> CHECK_PREFIX \o Val(result.employee_name),
   employee_id |-> result.employee_id,
   report_period |-> result.report_period,
   company_name |-> "",
   standard_hours |-> None,
   reported_hours |-> get_reported_hours(local_summary(result)),
   hours_status |-> "Unmatched",
   deviation_percent |-> 0,
   match_ratio |-> m.match_ratio]

\* lines 271-286: no match, the record is output under the CHECK prefix
AppendUnmatched ==
  /\ InLoop
  /\ Truthy(Current.employee_name)
  /\ \E m \in {CurrentMatch} :
       /\ ~Truthy(m.matched_name)
       /\ validated_results' =
            Append(validated_results, unmatched_row(idx + 1, Current, m))
  /\ idx' = idx + 1
  /\ UNCHANGED <<roster_vars, master_dict, all_results, seen_names, pc>>
  /\ UNCHANGED call_vars

\* line 297 (and lines 191-192 for an empty batch): return validated_results
Return ==
  /\ pc = "loop"
  /\ idx = Len(all_results)
  /\ pc' = "done"
  /\ UNCHANGED <<roster_vars, master_dict, all_results, validated_results, seen_names, idx>>
  /\ UNCHANGED call_vars

\* lines 207-297 as a function of the batch: the loop from record i on, with
\* the validated results and the names seen so far; it returns the batch as
\* the merges leave it and the validated results
RECURSIVE unify_from(_, _, _, _)
unify_from(records, rows, seen, i) ==
  IF i > Len(records)
  THEN [all_results |-> records, validated_results |-> rows]
  ELSE IF ~Truthy(records[i].employee_name)
  THEN unify_from(records, rows, seen, i + 1)
  ELSE LET m == match_table[master_dict][records[i].employee_name]
           norm_name == lower(normalize_name(Val(m.matched_name)))
           e == find_existing(rows, norm_name, 1)
           reported_hours == get_reported_hours(local_summary(records[i]))
       IN IF ~Truthy(m.matched_name)
          THEN unify_from(records, Append(rows, unmatched_row(i, records[i], m)),
                          seen, i + 1)
          ELSE IF seen_before(norm_name, seen)
          THEN unify_from(
                 IF e = 0 THEN records
                 ELSE [records EXCEPT
                         ![rows[e].src].report_summary =
                           merged_summary(summary_of(records, rows[e]),
                                          records[i].report_summary)],
                 rows, seen, i + 1)
          ELSE unify_from(
                 records,
                 Append(rows,
                   matched_row(i, records[i], m, master_info(Val(m.matched_name)),
                     reported_hours,
                     validate_hours(reported_hours,
                       master_info(Val(m.matched_name)).standard_hours,
                       DEFAULT_TOLERANCE))),
                 seen \cup {norm_name}, i + 1)

\* validate_and_unify_data(records)
validate_and_unify_data(records) == unify_from(records, <<>>, {}, 1)

Init ==
  /\ master_dict \in Rosters
  /\ Loaded
  /\ all_results \in Batches
  /\ given = all_results
  /\ validated_results = <<>>
  /\ seen_names = {}
  /\ idx = 0
  /\ pc = "loop"
  /\ call = None
  /\ ret = None

Next ==
  \/ SkipNoName
  \/ MergeDuplicate
  \/ AppendMatched
  \/ AppendUnmatched
  \/ Return

Spec == Init /\ [][Next]_vars

\* lines 237-243: an exception leaves the merge of a duplicate, and the
\* function; the keys merged before it are written
RaiseInMerge ==
  /\ InLoop
  /\ Truthy(Current.employee_name)
  /\ \E m \in {CurrentMatch} :
       /\ Truthy(m.matched_name)
       /\ \E norm_name \in {lower(normalize_name(Val(m.matched_name)))} :
            /\ seen_before(norm_name, seen_names)
            /\ \E e \in {find_existing(validated_results, norm_name, 1)} :
                 /\ e # 0
                 /\ \E existing_summary \in
                         {summary_of(all_results, validated_results[e])} :
                      /\ merge_raises(existing_summary, Current.report_summary)
                      /\ IF IsMapping(existing_summary)
                            /\ IsMapping(Current.report_summary)
                         THEN \E done \in
                                  SUBSET mergeable_keys(Val(existing_summary),
                                                        Val(Current.report_summary)) :
                                all_results' =
                                  [all_results EXCEPT
                                     ![validated_results[e].src].report_summary =
                                       Some(partly_merged(Val(existing_summary),
                                              Val(Current.report_summary), done))]
                         ELSE all_results' = all_results
  /\ pc' = "raised"
  /\ UNCHANGED <<roster_vars, master_dict, validated_results, seen_names, idx>>
  /\ UNCHANGED call_vars

\* line 254: an exception leaves validate_hours, and the function, after
\* line 248 has added the name to seen_names
RaiseInValidate ==
  /\ InLoop
  /\ Truthy(Current.employee_name)
  /\ \E m \in {CurrentMatch} :
       /\ Truthy(m.matched_name)
       /\ \E norm_name \in {lower(normalize_name(Val(m.matched_name)))} :
            /\ ~seen_before(norm_name, seen_names)
            /\ seen_names' = seen_names \cup {norm_name}
       /\ validate_hours_raises(get_reported_hours(local_summary(Current)),
                                master_info(Val(m.matched_name)).standard_hours)
  /\ pc' = "raised"
  /\ UNCHANGED <<roster_vars, master_dict, all_results, validated_results, idx>>
  /\ UNCHANGED call_vars

\* validate_and_unify_data on batches with one malformed record
InitMalformed ==
  /\ master_dict \in Rosters
  /\ Loaded
  /\ all_results \in MalformedBatches
  /\ given = all_results
  /\ validated_results = <<>>
  /\ seen_names = {}
  /\ idx = 0
  /\ pc = "loop"
  /\ call = None
  /\ ret = None

NextMalformed ==
  \/ Next
  \/ RaiseInMerge
  \/ RaiseInValidate

SpecMalformed == InitMalformed /\ [][NextMalformed]_vars

\* validate_and_unify_data on batches whose records carry presence hours,
\* approved hours, both or neither
InitReported ==
  /\ master_dict \in Rosters
  /\ Loaded
  /\ all_results \in HoursBatches
  /\ given = all_results
  /\ validated_results = <<>>
  /\ seen_names = {}
  /\ idx = 0
  /\ pc = "loop"
  /\ call = None
  /\ ret = None

SpecReported == InitReported /\ [][Next]_vars

\* validate_and_unify_data on batches that have records without a name
InitSkip ==
  /\ master_dict \in Rosters
  /\ Loaded
  /\ all_results \in BatchesOf(SkipRecords)
  /\ given = all_results
  /\ validated_results = <<>>
  /\ seen_names = {}
  /\ idx = 0
  /\ pc = "loop"
  /\ call = None
  /\ ret = None

SpecSkip == InitSkip /\ [][Next]_vars

----------------------------------------------------------------------------
(* apply_vacation_completion: the for loop, one record a step, and a       *)
(* second application to the list the first one returned                   *)

InVacation == pc = "vacation" /\ idx < Len(all_results)

\* lines 402-418: the standard hours of the record the loop is at, None when
\* the record has no summary, no name or no match
current_standard_hours ==
  IF ~IsMapping(Current.report_summary) \/ ~Truthy(Current.employee_name) THEN None
  ELSE vacation_standard_hours(CurrentMatch, master_dict)

\* the "continue" statements of lines 403-439
SkipVacation ==
  /\ InVacation
  /\ \E standard_hours \in {current_standard_hours} :
       \/ ~IsMapping(Current.report_summary)
       \/ ~needs_completion(Val(Current.report_summary), standard_hours)
  /\ idx' = idx + 1
  /\ UNCHANGED <<roster_vars, master_dict, all_results, given, validated_results,
                 seen_names, pc, call, ret>>

\* lines 434-447: the summary of the record is updated in place
CompleteVacation ==
  /\ InVacation
  /\ IsMapping(Current.report_summary)
  /\ \E standard_hours \in {current_standard_hours} :
       /\ needs_completion(Val(Current.report_summary), standard_hours)
       /\ all_results' =
            [all_results EXCEPT ![idx + 1].report_summary =
               Some(completed_summary(Val(Current.report_summary),
                                      Val(standard_hours)))]
  /\ idx' = idx + 1
  /\ UNCHANGED <<roster_vars, master_dict, given, validated_results, seen_names, pc,
                 call, ret>>

\* line 453 (and line 397 for an empty list): return all_results, the list it
\* was given; ret keeps what every application returned
ReturnVacation ==
  /\ pc = "vacation"
  /\ idx = Len(all_results)
  /\ pc' = "vacation_done"
  /\ ret' = Append(ret, all_results)
  /\ UNCHANGED <<roster_vars, master_dict, all_results, given, validated_results,
                 seen_names, idx, call>>

\* apply_vacation_completion(processed_results, master_dict), once more
ApplyAgain ==
  /\ pc = "vacation_done"
  /\ call.fn = "apply_vacation_completion"
  /\ Len(ret) = 1
  /\ pc' = "vacation"
  /\ idx' = 0
  /\ UNCHANGED <<roster_vars, master_dict, all_results, given, validated_results,
                 seen_names, call, ret>>

InitVacation ==
  /\ master_dict \in VacationRosters
  /\ Loaded
  /\ all_results \in VacationBatches
  /\ given = all_results
  /\ validated_results = <<>>
  /\ seen_names = {}
  /\ idx = 0
  /\ pc = "vacation"
  /\ call = [fn |-> "apply_vacation_completion"]
  /\ ret = <<>>

NextVacation ==
  \/ SkipVacation
  \/ CompleteVacation
  \/ ReturnVacation
  \/ ApplyAgain

SpecVacation == InitVacation /\ [][NextVacation]_vars

----------------------------------------------------------------------------
(* main.py, lines 150-158: the steps that follow the parsing of the        *)
(* reports                                                                  *)

\* line 155 and export_to_excel.py lines 93-107: export_summary_excel gets
\* what apply_vacation_completion returned and, unless the list is empty,
\* calls validate_and_unify_data on it
ExportSummaryExcel ==
  /\ pc = "vacation_done"
  /\ call.fn = "main"
  /\ pc' = IF all_results = <<>> THEN "done" ELSE "loop"
  /\ idx' = 0
  /\ validated_results' = <<>>
  /\ seen_names' = {}
  /\ UNCHANGED <<roster_vars, master_dict, all_results>>
  /\ UNCHANGED call_vars

\* lines 151-152: ALL_RESULTS as parsed, handed to apply_vacation_completion
InitPipeline ==
  /\ master_dict \in PipelineRosters
  /\ Loaded
  /\ all_results \in PipelineBatches
  /\ given = all_results
  /\ validated_results = <<>>
  /\ seen_names = {}
  /\ idx = 0
  /\ pc = "vacation"
  /\ call = [fn |-> "main"]
  /\ ret = <<>>

NextPipeline ==
  \/ SkipVacation
  \/ CompleteVacation
  \/ ReturnVacation
  \/ ExportSummaryExcel
  \/ SkipNoName
  \/ MergeDuplicate
  \/ AppendMatched
  \/ AppendUnmatched
  \/ Return

SpecPipeline == InitPipeline /\ [][NextPipeline]_vars

----------------------------------------------------------------------------
(* match_employee_name and get_best_name_match as functions of their       *)
(* arguments                                                                *)

\* the longest raw name made of the letters of Alphabet
MaxNameLen == 3

\* a b A space hyphen alef bet
Alphabet == {97, 98, 65, 32, 45, 1488, 1489}

Strings == UNION { [1..n -> Alphabet] : n \in 0..MaxNameLen }

NAME_ab == <<97, 98>>                         \* "ab"
NAME_ba == <<98, 97>>                         \* "ba"
NAME_aab == <<97, 97, 98>>                    \* "aab": ratio 4/5 to "ab"
NAME_alef_sp_bet == <<1488, 32, 1489>>        \* alef, space, bet
NAME_dash == <<45>>                           \* "-": empty once normalized
\* "Israel Cohen"
NAME_Israel_Cohen == <<73, 115, 114, 97, 101, 108, 32, 67, 111, 104, 101, 110>>
\* "nehoC learsI"
NAME_nehoC_learsI == <<110, 101, 104, 111, 67, 32, 108, 101, 97, 114, 115, 73>>

\* employee_name: None, or a string
RawNames ==
  {None} \cup { Some(s) : s \in Strings }
         \cup { Some(NAME_Israel_Cohen), Some(NAME_nehoC_learsI) }

\* master_names: list(master_dict.keys()), or EMPLOYEE_NAMES of report_parser
MasterLists ==
  { <<>>,
    <<NAME_ab>>,
    <<NAME_a_b, NAME_A_dash_b>>,
    <<NAME_A_dash_b, NAME_a_b>>,
    <<NAME_ab, NAME_ba>>,
    <<NAME_aab, NAME_ab>>,
    <<NAME_alef_bet>>,
    <<NAME_alef_sp_bet>>,
    <<NAME_alef_bet, NAME_ab>>,
    <<NAME_Israel_Cohen>>,
    <<NAME_dash, NAME_ab>> }

\* threshold: 1/2, 7/10 (the default), 3/4, 1
Thresholds == { <<1, 2>>, DEFAULT_THRESHOLD, <<3, 4>>, ONE }

\* no call of validate_and_unify_data runs
Idle ==
  /\ NotLoaded
  /\ master_dict = <<>>
  /\ all_results = <<>>
  /\ given = <<>>
  /\ validated_results = <<>>
  /\ seen_names = {}
  /\ idx = 0
  /\ pc = "idle"

unify_vars ==
  <<roster_vars, master_dict, all_results, given, validated_results, seen_names, idx, pc>>

InitMatch ==
  /\ Idle
  /\ call \in [fn : {"match_employee_name"}, employee_name : RawNames,
               master_names : MasterLists, threshold : Thresholds]
  /\ ret = None

\* the call returns
MatchEmployeeName ==
  /\ call.fn = "match_employee_name"
  /\ ret = None
  /\ ret' = Some(match_employee_name(call.employee_name, call.master_names,
                                     call.threshold))
  /\ UNCHANGED <<unify_vars, call>>

NextMatch == MatchEmployeeName

SpecMatch == InitMatch /\ [][NextMatch]_vars

\* employee_name of get_best_name_match: also names that carry the flag
BestNames ==
  RawNames \cup { Some(p \o s) : p \in {CHECK_PREFIX, CHECK_MARK},
                                 s \in {<<>>, NAME_ab, NAME_alef_bet} }

\* ret is the list of the values returned so far: the function is applied to
\* the name, then once more to what it returned
InitBestName ==
  /\ Idle
  /\ call \in [fn : {"export_to_excel.get_best_name_match",
                     "google_sheets_updater.get_best_name_match",
                     "unified_name"},
               employee_name : BestNames, master_names : MasterLists]
  /\ ret = <<>>

\* the argument of the next application
Argument == IF ret = <<>> THEN call.employee_name ELSE ret[1]

ExportGetBestNameMatch ==
  /\ call.fn = "export_to_excel.get_best_name_match"
  /\ Len(ret) < 2
  /\ ret' = Append(ret, export_get_best_name_match(Argument, call.master_names))
  /\ UNCHANGED <<unify_vars, call>>

SheetsGetBestNameMatch ==
  /\ call.fn = "google_sheets_updater.get_best_name_match"
  /\ Len(ret) < 2
  /\ ret' = Append(ret, sheets_get_best_name_match(Argument, call.master_names))
  /\ UNCHANGED <<unify_vars, call>>

UnifiedName ==
  /\ call.fn = "unified_name"
  /\ Len(ret) < 2
  /\ ret' = Append(ret, unified_name(Argument, call.master_names))
  /\ UNCHANGED <<unify_vars, call>>

NextBestName ==
  \/ ExportGetBestNameMatch
  \/ SheetsGetBestNameMatch
  \/ UnifiedName

SpecBestName == InitBestName /\ [][NextBestName]_vars

----------------------------------------------------------------------------
(* A run that takes its roster from the file: calls of load_master_data   *)
(* and get_master_employee_dict, the file rewritten between them, then    *)
(* validate_and_unify_data                                                *)

BeforeUnify == pc = "roster"

\* a call of the roster functions, as the history ret keeps it
RosterCall(fn, l) == [fn |-> fn, outcome |-> l.outcome, value |-> l.value]

\* the file changes on disk between two calls
RewriteMasterFile ==
  /\ BeforeUnify
  /\ master_file' \in RosterFiles \ {master_file}
  /\ UNCHANGED <<MASTER_DATA, MASTER_EMPLOYEE_DICT>>
  /\ UNCHANGED <<master_dict, all_results, validated_results, seen_names, idx, pc>>
  /\ UNCHANGED call_vars

\* export_to_excel.py line 104, google_sheets_updater.py line 496
LoadMasterData ==
  /\ BeforeUnify
  /\ Len(ret) < MaxLoads
  /\ \E l \in {load_master_data(master_file, MASTER_DATA, MASTER_EMPLOYEE_DICT)} :
       /\ MASTER_DATA' = l.MASTER_DATA
       /\ MASTER_EMPLOYEE_DICT' = l.MASTER_EMPLOYEE_DICT
       /\ ret' = Append(ret, RosterCall("load_master_data", l))
  /\ UNCHANGED <<master_file, master_dict, all_results, validated_results,
                 seen_names, idx, pc, given, call>>

\* main.py line 151
GetMasterEmployeeDict ==
  /\ BeforeUnify
  /\ Len(ret) < MaxLoads
  /\ \E l \in {get_master_employee_dict(master_file, MASTER_DATA,
                                        MASTER_EMPLOYEE_DICT)} :
       /\ MASTER_DATA' = l.MASTER_DATA
       /\ MASTER_EMPLOYEE_DICT' = l.MASTER_EMPLOYEE_DICT
       /\ ret' = Append(ret, RosterCall("get_master_employee_dict", l))
  /\ UNCHANGED <<master_file, master_dict, all_results, validated_results,
                 seen_names, idx, pc, given, call>>

\* lines 191-192: validate_and_unify_data of an empty batch returns at once
ValidateNothing ==
  /\ BeforeUnify
  /\ all_results = <<>>
  /\ pc' = "done"
  /\ UNCHANGED <<roster_vars, master_dict, all_results, validated_results,
                 seen_names, idx>>
  /\ UNCHANGED call_vars

\* lines 194-205: validate_and_unify_data takes the roster and enters the loop
ValidateAndUnifyData ==
  /\ BeforeUnify
  /\ all_results # <<>>
  /\ \E l \in {get_master_employee_dict(master_file, MASTER_DATA,
                                        MASTER_EMPLOYEE_DICT)} :
       /\ MASTER_DATA' = l.MASTER_DATA
       /\ MASTER_EMPLOYEE_DICT' = l.MASTER_EMPLOYEE_DICT
       /\ master_dict' = l.value
       /\ ret' = Append(ret, RosterCall("get_master_employee_dict", l))
  /\ pc' = "loop"
  /\ UNCHANGED <<master_file, all_results, validated_results, seen_names, idx,
                 given, call>>

InitRoster ==
  /\ master_file \in RosterFiles
  /\ MASTER_DATA = None
  /\ MASTER_EMPLOYEE_DICT = None
  /\ master_dict = <<>>
  /\ all_results \in RosterBatches
  /\ given = all_results
  /\ validated_results = <<>>
  /\ seen_names = {}
  /\ idx = 0
  /\ pc = "roster"
  /\ call = [fn |-> "main"]
  /\ ret = <<>>

NextRoster ==
  \/ RewriteMasterFile
  \/ LoadMasterData
  \/ GetMasterEmployeeDict
  \/ ValidateNothing
  \/ ValidateAndUnifyData
  \/ SkipNoName
  \/ MergeDuplicate
  \/ AppendMatched
  \/ AppendUnmatched
  \/ Return

SpecRoster == InitRoster /\ [][NextRoster]_vars

----------------------------------------------------------------------------
(* normalize_name as a function of its argument, applied once and again *)

\* a, alef, space, tab, hyphen, double quote, apostrophe
NormalizeAlphabet == {97, 1488, 32, 9, 45, 34, 39}

\* name: null, not a string, or a string of up to MaxNameLen characters
NormalizeInputs ==
  {None, NOT_A_STRING}
  \cup { Some(s) : s \in UNION { [1..n -> NormalizeAlphabet] : n \in 0..MaxNameLen } }

InitNormalize ==
  /\ Idle
  /\ call \in [fn : {"normalize_name"}, name : NormalizeInputs]
  /\ ret = <<>>

\* normalize_name(name), then normalize_name of what that returned
NormalizeName ==
  /\ call.fn = "normalize_name"
  /\ Len(ret) < 2
  /\ ret' = Append(ret, normalize_name_of(IF ret = <<>> THEN call.name
                                          ELSE Some(ret[1])))
  /\ UNCHANGED <<unify_vars, call>>

NextNormalize == NormalizeName

SpecNormalize == InitNormalize /\ [][NextNormalize]_vars

----------------------------------------------------------------------------
(* _fix_rtl_name of report_parser.py as a function of the name and of the *)
(* list EMPLOYEE_NAMES                                                    *)

\* lines 229-241: the highest ratio of candidate over the list, 0.0 at first
RECURSIVE best_ratio_over(_, _, _, _)
best_ratio_over(candidate, employee_names, i, best) ==
  IF i > Len(employee_names) THEN best
  ELSE best_ratio_over(candidate, employee_names, i + 1,
         (LET r == ratio(lower(candidate), lower(strip(employee_names[i])))
          IN IF Gt(r, best) THEN r ELSE best))

\* line 244: best_ratio_reversed > best_ratio_original + 0.1, on doubles
significantly_closer(best_reversed, best_original) ==
  float_gt(float_div(best_reversed[1], best_reversed[2]),
           float_plus(float_div(best_original[1], best_original[2]),
                      float_div(1, 10)))

\* lines 204-248; name is null or Some(string)
report_fix_rtl_name(name, employee_names) ==
  IF ~Truthy(name) THEN name
  ELSE IF ~\E i \in 1..Len(Val(name)) : IsHebrew(Val(name)[i]) THEN name
  ELSE IF employee_names = <<>> THEN name
  ELSE IF significantly_closer(
            best_ratio_over(strip(reversed(Val(name))), employee_names, 1, ZERO),
            best_ratio_over(strip(Val(name)), employee_names, 1, ZERO))
  THEN Some(strip(reversed(Val(name))))
  ELSE name

\* seven Hebrew letters, alef to zayin
NAME_alef_to_zayin == <<1488, 1489, 1490, 1491, 1492, 1493, 1494>>
\* alef to zayin and six x: ratio 7/10 to alef to zayin
NAME_alef_to_zayin_x == NAME_alef_to_zayin \o <<120, 120, 120, 120, 120, 120>>
\* zayin down to bet and two y: ratio 4/5 to zayin down to alef
NAME_zayin_to_bet_y == <<1494, 1493, 1492, 1491, 1490, 1489, 121, 121>>

\* name: null, a string of up to MaxNameLen characters over alef, bet, a
\* and space, or alef to zayin
RtlNames ==
  {None, Some(NAME_alef_to_zayin)}
  \cup { Some(s) : s \in UNION { [1..n -> {1488, 1489, 97, 32}] : n \in 0..MaxNameLen } }

\* EMPLOYEE_NAMES
ReferenceLists ==
  { <<>>,
    <<NAME_alef_bet>>,
    <<NAME_ab, NAME_alef_sp_bet>>,
    <<NAME_alef_to_zayin_x, NAME_zayin_to_bet_y>> }

InitRtl ==
  /\ Idle
  /\ call \in [fn : {"report_parser._fix_rtl_name"}, name : RtlNames,
               EMPLOYEE_NAMES : ReferenceLists]
  /\ ret = None

\* the call returns
ReportFixRtlName ==
  /\ call.fn = "report_parser._fix_rtl_name"
  /\ ret = None
  /\ ret' = Some(report_fix_rtl_name(call.name, call.EMPLOYEE_NAMES))
  /\ UNCHANGED <<unify_vars, call>>

NextRtl == ReportFixRtlName

SpecRtl == InitRtl /\ [][NextRtl]_vars

----------------------------------------------------------------------------
(* deduplicate_results of google_sheets_updater.py, and the loop of       *)
(* update_google_sheets that writes the hours of the records it returns   *)

\* 'UNKNOWN' and 'None'
STR_UNKNOWN == <<85, 78, 75, 78, 79, 87, 78>>
STR_None == <<78, 111, 110, 101>>

\* lines 179-180, 186-187: the column norm_name of a name
dedup_norm_name(name) ==
  LET replaced(s) == IF s = STR_None \/ s = <<>> THEN STR_UNKNOWN ELSE s
  IN replaced(IF IsNone(name) THEN STR_None
              ELSE sub_spaces(sub_punctuation(strip(Val(name)))))

\* lines 188-189: the column norm_id of an employee_id
dedup_norm_id(employee_id) ==
  IF IsNone(employee_id) THEN "NO_ID"
  ELSE IF Val(employee_id) \in {"", "None"} THEN "NO_ID"
  ELSE Val(employee_id)

\* a < b for strings, as sort_values orders them
str_lt(a, b) ==
  \E k \in 1..Len(b) :
    /\ \A j \in 1..(k - 1) : j <= Len(a) /\ a[j] = b[j]
    /\ IF k > Len(a) THEN TRUE ELSE a[k] < b[k]

\* lines 156-199: a row of the data frame with its helper columns
dedup_row(item, employee_names) ==
  LET named(name) ==
        [employee_name |-> name,
         employee_id |-> item.employee_id,
         report_period |-> item.report_period,
         report_summary |-> Some(local_summary(item)),
         norm_name |-> dedup_norm_name(name),
         norm_id |-> dedup_norm_id(item.employee_id),
         has_id |-> IF dedup_norm_id(item.employee_id) # "NO_ID" THEN 1 ELSE 0,
         hour_count |-> Cardinality({k \in Metrics : ~IsNone(local_summary(item)[k])})]
  IN named(IF employee_names # <<>>
           THEN unified_name(item.employee_name, employee_names)
           ELSE item.employee_name)

\* lines 201-205: row a is sorted before row b; rows that tie keep their order
sorts_before(df, a, b) ==
  \/ str_lt(df[a].norm_name, df[b].norm_name)
  \/ /\ df[a].norm_name = df[b].norm_name
     /\ \/ df[a].has_id > df[b].has_id
        \/ /\ df[a].has_id = df[b].has_id
           /\ \/ df[a].hour_count > df[b].hour_count
              \/ df[a].hour_count = df[b].hour_count /\ a < b

\* line 208: subset=['norm_name', 'norm_id']
same_key(x, y) == x.norm_name = y.norm_name /\ x.norm_id = y.norm_id

\* lines 201-229: sort, keep the first row of every key, drop the helper
\* columns
sort_and_drop(df) ==
  LET order == CHOOSE q \in Permutations(1..Len(df)) :
                 \A a, b \in 1..Len(df) : a < b => sorts_before(df, q[a], q[b])
      sorted == [a \in 1..Len(df) |-> df[order[a]]]
      first(a) == \A b \in 1..(a - 1) : ~same_key(sorted[b], sorted[a])
      kept == SelectSeq([a \in 1..Len(df) |-> a], first)
  IN [r \in 1..Len(kept) |->
        [employee_name |-> sorted[kept[r]].employee_name,
         employee_id |-> sorted[kept[r]].employee_id,
         report_period |-> sorted[kept[r]].report_period,
         report_summary |-> sorted[kept[r]].report_summary]]

\* lines 140-232
deduplicate_results(results, employee_names) ==
  IF results = <<>> THEN <<>>
  ELSE sort_and_drop([i \in 1..Len(results) |->
                        dedup_row(results[i], employee_names)])

\* row_map_variants[key] = row: a known key keeps its place
variants_set(variants, key, row) ==
  IF \E i \in 1..Len(variants) : variants[i].key = key
  THEN [i \in 1..Len(variants) |->
          IF variants[i].key = key THEN [key |-> key, row |-> row]
          ELSE variants[i]]
  ELSE Append(variants, [key |-> key, row |-> row])

\* lines 505-523: row_map_variants of a sheet whose name column holds
\* sheet_names from row 2 on
RECURSIVE row_map_variants(_, _, _)
row_map_variants(sheet_names, i, variants) ==
  IF i > Len(sheet_names) THEN variants
  ELSE LET key == lower(normalize_name(strip(sheet_names[i])))
           known == \E v \in 1..Len(variants) : variants[v].key = key
       IN row_map_variants(sheet_names, i + 1,
            IF key = <<>> \/ known THEN variants
            ELSE Append(variants, [key |-> key, row |-> i + 1]))

\* lines 550-562: the row of the variant most like the name, 0 for none at
\* 0.75 or above
RECURSIVE fuzzy_row(_, _, _, _, _)
fuzzy_row(name_norm_lower, variants, i, best_ratio, row_num) ==
  IF i > Len(variants) THEN row_num
  ELSE LET r == ratio(name_norm_lower, variants[i].key)
       IN IF Gt(r, best_ratio) /\ Ge(r, <<3, 4>>)
          THEN fuzzy_row(name_norm_lower, variants, i + 1, r, variants[i].row)
          ELSE fuzzy_row(name_norm_lower, variants, i + 1, best_ratio, row_num)

\* lines 540-562: the row of a name in the sheet, 0 when it has none
sheet_row(name, variants) ==
  LET key == lower(normalize_name(name))
      exact == {i \in 1..Len(variants) : variants[i].key = key}
  IN IF key # <<>> /\ exact # {}
     THEN variants[CHOOSE i \in exact : TRUE].row
     ELSE fuzzy_row(key, variants, 1, ZERO, 0)

\* lines 531-596: the loop over clean_results; every cell is the row and
\* the hours written to it
RECURSIVE updates_to_send(_, _, _, _, _)
updates_to_send(clean_results, i, variants, rows, cells) ==
  IF i > Len(clean_results) THEN cells
  ELSE IF ~Truthy(clean_results[i].employee_name)
  THEN updates_to_send(clean_results, i + 1, variants, rows, cells)
  ELSE LET name == Val(clean_results[i].employee_name)
           found == sheet_row(name, variants)
           row_num == IF found # 0 THEN found ELSE rows + 1
           hours_val == Val(clean_results[i].report_summary)["total_presence_hours"]
       IN updates_to_send(clean_results, i + 1,
            IF found = 0 /\ normalize_name(name) # <<>>
            THEN variants_set(variants, normalize_name(name), row_num)
            ELSE variants,
            IF found = 0 THEN rows + 1 ELSE rows,
            IF ~IsNone(hours_val)
            THEN Append(cells, [row |-> row_num, value |-> Val(hours_val)])
            ELSE cells)

\* period_results: records of one period, with and without an identifier
\* and presence hours; "a b" and "A-b" unify to one name
SheetRecords ==
  { RawRecord(n, id, "2024-01", Summary(presence, None)) :
      n \in {Some(NAME_a_b), Some(NAME_A_dash_b), Some(NAME_xy), None},
      id \in {None, Some("77")},
      presence \in {None, Some(150), Some(160)} }

SheetBatches ==
  UNION { [1..n -> SheetRecords] : n \in 0..MaxReports }

\* employee_names, which are the names of the sheet's rows too
SheetNames == { <<>>, <<NAME_a_b, NAME_cd>> }

InitSheets ==
  /\ Idle
  /\ call \in [fn : {"update_google_sheets"}, period_results : SheetBatches,
               employee_names : SheetNames]
  /\ ret = <<>>

\* line 415: clean_results = deduplicate_results(period_results, employee_names)
DeduplicateResults ==
  /\ call.fn = "update_google_sheets"
  /\ ret = <<>>
  /\ ret' = <<deduplicate_results(call.period_results, call.employee_names)>>
  /\ UNCHANGED <<unify_vars, call>>

\* lines 505-603: the cells sent for the period
UpdateCells ==
  /\ call.fn = "update_google_sheets"
  /\ Len(ret) = 1
  /\ ret' = Append(ret,
              updates_to_send(ret[1], 1,
                              row_map_variants(call.employee_names, 1, <<>>),
                              Len(call.employee_names) + 1, <<>>))
  /\ UNCHANGED <<unify_vars, call>>

NextSheets == DeduplicateResults \/ UpdateCells

SpecSheets == InitSheets /\ [][NextSheets]_vars

----------------------------------------------------------------------------
(* validate_hours as a function of its arguments *)

\* the most hours reported
MaxHours == 220

\* reported_hours: None, or a whole number of hours
ReportedHours == {None} \cup { Some(h) : h \in 0..MaxHours }

\* standard_hours: a negative one, none, and three that occur
StandardHours == {-8, 0, 80, 100, 160}

\* tolerance_percent: none, 7, the default and 25
Tolerances == {0, 7, DEFAULT_TOLERANCE, 25}

InitHours ==
  /\ Idle
  /\ call \in [fn : {"validate_hours"}, reported_hours : ReportedHours,
               standard_hours : StandardHours, tolerance_percent : Tolerances]
  /\ ret = None

\* the call returns
ValidateHours ==
  /\ call.fn = "validate_hours"
  /\ ret = None
  /\ ret' = Some(validate_hours(call.reported_hours, call.standard_hours,
                                call.tolerance_percent))
  /\ UNCHANGED <<unify_vars, call>>

NextHours == ValidateHours

SpecHours == InitHours /\ [][NextHours]_vars

----------------------------------------------------------------------------
(* Properties of validate_and_unify_data *)

Done == pc = "done"

Records == 1..Len(given)

Rows == 1..Len(validated_results)

\* how match_employee_name resolves record i of the batch
Resolution(i) == match_table[master_dict][given[i].employee_name]

Resolved(i) ==
  Truthy(given[i].employee_name) /\ Truthy(Resolution(i).matched_name)

Unresolved(i) ==
  Truthy(given[i].employee_name) /\ ~Truthy(Resolution(i).matched_name)

\* the normalized, lower-cased canonical name of a resolved record, of a row
Identity(i) == lower(normalize_name(Val(Resolution(i).matched_name)))

RowIdentity(r) == lower(normalize_name(validated_results[r].employee_name))

IsMatchedRow(r) == validated_results[r].hours_status # "Unmatched"

\* the records of the batch that resolve to the identity of row r
GroupOf(r) == {i \in Records : Resolved(i) /\ Identity(i) = RowIdentity(r)}

\* a metric of record i as passed in, of row r as returned
GivenValue(i, k) == Val(given[i].report_summary)[k]

MergedValue(r, k) == Val(summary_of(all_results, validated_results[r]))[k]

\* has-id (0/1) plus the number of non-null hour metrics
Completeness(i) ==
  (IF IsNone(given[i].employee_id) THEN 0 ELSE 1)
  + Cardinality({k \in Metrics : ~IsNone(GivenValue(i, k))})

\* the records of the spec's scenario: A {has_id: false, presence 150},
\* B {has_id: true, presence null, overtime 5}
RecordA == RawRecord(Some(NAME_a_b), None, "2024-01", Summary(Some(150), None))

RecordB == RawRecord(Some(NAME_a_b), Some("77"), "2024-01", Summary(None, Some(5)))

(* C1: after validate_and_unify_data, no two matched output records have  *)
(* the same normalized, lower-cased canonical name and the same period.   *)
C1_OnePerIdentityAndPeriod ==
  Done =>
    \A r1, r2 \in Rows :
      (r1 # r2 /\ IsMatchedRow(r1) /\ IsMatchedRow(r2))
        => ~(/\ RowIdentity(r1) = RowIdentity(r2)
             /\ validated_results[r1].report_period
                  = validated_results[r2].report_period)

\* a batch with two records of one identity and one period has been unified
C1_Witness ==
  /\ Done
  /\ \E i, j \in Records :
       /\ i < j /\ Resolved(i) /\ Resolved(j)
       /\ Identity(i) = Identity(j)
       /\ given[i].report_period = given[j].report_period
       /\ \E r \in Rows : IsMatchedRow(r) /\ RowIdentity(r) = Identity(i)

(* C2: two records that resolve to the same roster name and carry         *)
(* different report periods yield two separate output records, each with  *)
(* its own period.                                                         *)
C2_PeriodsKeptApart ==
  Done =>
    \A i, j \in Records :
      (/\ i < j /\ Resolved(i) /\ Resolved(j)
       /\ Resolution(i).matched_name = Resolution(j).matched_name
       /\ given[i].report_period # given[j].report_period)
        => \E r1, r2 \in Rows :
             /\ r1 # r2
             /\ validated_results[r1].employee_name = Val(Resolution(i).matched_name)
             /\ validated_results[r2].employee_name = Val(Resolution(i).matched_name)
             /\ validated_results[r1].report_period = given[i].report_period
             /\ validated_results[r2].report_period = given[j].report_period

C4_CompletenessDecides ==
  Done =>
    \A r \in Rows : \A k \in Metrics :
      (IsMatchedRow(r) /\ Cardinality(GroupOf(r)) > 1) =>
        LET holders == {i \in GroupOf(r) : ~IsNone(GivenValue(i, k))}
            top == {i \in holders :
                      \A j \in holders : Completeness(i) >= Completeness(j)}
        IN IF holders = {} THEN IsNone(MergedValue(r, k))
           ELSE /\ ~IsNone(MergedValue(r, k))
                /\ \E i \in top : GivenValue(i, k) = MergedValue(r, k)
                /\ \A j \in top : Val(GivenValue(j, k)) <= Val(MergedValue(r, k))

(* C4 as amended: in a merged group each metric is the numerically        *)
(* largest non-null value any record of the group has for it, whatever    *)
(* the completeness scores; it is null when no record has a value.        *)
C4_LargestValueKept ==
  Done =>
    \A r \in Rows : \A group \in {GroupOf(r)} :
      (IsMatchedRow(r) /\ Cardinality(group) > 1) =>
        \A k \in Metrics :
          LET holders == {i \in group : ~IsNone(GivenValue(i, k))}
          IN IF holders = {} THEN IsNone(MergedValue(r, k))
             ELSE /\ ~IsNone(MergedValue(r, k))
                  /\ \E i \in holders : GivenValue(i, k) = MergedValue(r, k)
                  /\ \A j \in holders :
                       Val(GivenValue(j, k)) <= Val(MergedValue(r, k))

\* a group merged whose more complete record has the smaller value
C4_Witness ==
  /\ Done
  /\ \E r \in Rows : \E i, j \in GroupOf(r) : \E k \in Metrics :
       /\ IsMatchedRow(r)
       /\ Completeness(i) > Completeness(j)
       /\ ~IsNone(GivenValue(i, k)) /\ ~IsNone(GivenValue(j, k))
       /\ Val(GivenValue(i, k)) < Val(GivenValue(j, k))
       /\ MergedValue(r, k) = GivenValue(j, k)

(* C5: a metric is non-null in the merged summary whenever a record of    *)
(* the group has a non-null value for it, in every input order; records   *)
(* A and B of the scenario merge to presence 150 and overtime 5 whether   *)
(* A or B comes first.                                                     *)
C5_NonNullSurvives ==
  Done =>
    /\ \A r \in Rows : \A group \in {GroupOf(r)} : \A k \in Metrics :
         (IsMatchedRow(r) /\ \E i \in group : ~IsNone(GivenValue(i, k)))
           => ~IsNone(MergedValue(r, k))
    /\ given \in {<<RecordA, RecordB>>, <<RecordB, RecordA>>} =>
         /\ Len(validated_results) = 1
         /\ MergedValue(1, "total_presence_hours") = Some(150)
         /\ MergedValue(1, "overtime_hours") = Some(5)

\* B, whose presence hours are null, came first and A was merged into it
C5_Witness ==
  /\ Done
  /\ given = <<RecordB, RecordA>>
  /\ Len(validated_results) = 1

(* C9: an input record whose name already starts with "**CHECK:" comes    *)
(* out under the same name.                                                *)
C9_FlaggedNameKept ==
  Done =>
    \A r \in Rows :
      LET raw == Val(given[validated_results[r].src].employee_name)
      IN startswith(raw, CHECK_MARK)
           => validated_results[r].employee_name = raw

----------------------------------------------------------------------------
(* Properties of match_employee_name *)

\* the call of match_employee_name has returned
MatchReturned ==
  pc = "idle" /\ call.fn = "match_employee_name" /\ ret # None

InRoster(n, names) == \E i \in 1..Len(names) : names[i] = n

HasHebrew(s) == \E i \in 1..Len(s) : IsHebrew(s[i])

\* equal once normalized and lower-cased
SameForm(a, b) == lower(normalize_name(a)) = lower(normalize_name(b))

\* the first name of the list that has the form of n
FirstOfForm(n, names) ==
  names[CHOOSE i \in 1..Len(names) :
          /\ SameForm(names[i], n)
          /\ \A j \in 1..(i - 1) : ~SameForm(names[j], n)]

\* equal as fractions
Eq(x, y) == x[1] * y[2] = y[1] * x[2]

\* the similarity of the raw name n to a roster name, as given
Similarity(n, m) == ratio(lower(normalize_name(n)), lower(normalize_name(m)))

\* the similarity of the reversed raw name to a roster name
ReversedSimilarity(n, m) ==
  ratio(lower(fix_rtl_name(normalize_name(n))), lower(normalize_name(m)))

\* the similarities the fuzzy checks see when no name clears the threshold
SeenRatios(n, names) ==
  { Similarity(n, names[i]) : i \in 1..Len(names) }
  \cup (IF fix_rtl_name(normalize_name(n)) # normalize_name(n)
        THEN { ReversedSimilarity(n, names[i]) : i \in 1..Len(names) }
        ELSE {})

IsHighest(r, seen) ==
  /\ \A q \in seen : Ge(r, q)
  /\ \E q \in seen : Eq(r, q)

(* C6 as claimed: a name of the roster matches itself with score 1.0,     *)
(* whatever else the roster holds.                                         *)
C6_RosterNameIsItself ==
  (/\ MatchReturned
   /\ Truthy(call.employee_name)
   /\ InRoster(Val(call.employee_name), call.master_names))
    => Val(ret) = MatchResult(call.employee_name, ONE)

(* C6: a name of the roster matches, with score 1.0, the first roster     *)
(* name that equals it once both are normalized and lower-cased; that is  *)
(* the name itself when no earlier roster name has the same form.         *)
C6_FirstOfItsForm ==
  (/\ MatchReturned
   /\ Truthy(call.employee_name)
   /\ InRoster(Val(call.employee_name), call.master_names))
    => /\ Val(ret) = MatchResult(Some(FirstOfForm(Val(call.employee_name),
                                                  call.master_names)), ONE)
       /\ (\A i \in 1..Len(call.master_names) :
             SameForm(call.master_names[i], Val(call.employee_name))
               => call.master_names[i] = Val(call.employee_name))
            => Val(ret).matched_name = call.employee_name

\* the second of two roster names of one form is matched to the first
C6_Witness ==
  /\ MatchReturned
  /\ Truthy(call.employee_name)
  /\ InRoster(Val(call.employee_name), call.master_names)
  /\ Val(ret).matched_name # call.employee_name
  /\ Val(ret).match_ratio = ONE

IsReversalOf(i) ==
  /\ Truthy(call.employee_name)
  /\ i \in 1..Len(call.master_names)
  /\ Val(call.employee_name) = reversed(call.master_names[i])
  /\ Val(call.employee_name) # call.master_names[i]

(* C8 as claimed: a raw name that is the reversal of a roster name is     *)
(* resolved to that name with a score at or above the threshold.          *)
C8_ReversalResolved ==
  MatchReturned =>
    \A i \in 1..Len(call.master_names) :
      IsReversalOf(i)
        => /\ Val(ret).matched_name = Some(call.master_names[i])
           /\ Ge(Val(ret).match_ratio, call.threshold)

(* C8: a raw name with a Hebrew-range character that is the reversal of a *)
(* roster name is resolved to a roster name with a score at or above the  *)
(* threshold, and to that very name when the roster holds no other. A     *)
(* reversal without such a character is not reversed back: against a      *)
(* roster of the one name it gets the similarity of the name as given,    *)
(* and no name when that is below the threshold; "nehoC learsI" against   *)
(* "Israel Cohen" gets no name and 1/12.                                   *)
C8_HebrewReversalResolved ==
  MatchReturned =>
    /\ \A i \in 1..Len(call.master_names) :
         (IsReversalOf(i) /\ HasHebrew(Val(call.employee_name)))
           => /\ Truthy(Val(ret).matched_name)
              /\ Ge(Val(ret).match_ratio, call.threshold)
              /\ Len(call.master_names) = 1
                   => Val(ret).matched_name = Some(call.master_names[1])
    /\ (/\ IsReversalOf(1)
        /\ Len(call.master_names) = 1
        /\ ~HasHebrew(Val(call.employee_name))
        /\ Lt(Similarity(Val(call.employee_name), call.master_names[1]),
              call.threshold))
         => /\ Val(ret).matched_name = None
            /\ Eq(Val(ret).match_ratio,
                  Similarity(Val(call.employee_name), call.master_names[1]))
    /\ (/\ call.employee_name = Some(NAME_nehoC_learsI)
        /\ call.master_names = <<NAME_Israel_Cohen>>)
         => /\ Val(ret).matched_name = None
            /\ Eq(Val(ret).match_ratio, <<1, 12>>)

\* a reversed Hebrew name that the name as given does not resolve
C8_Witness ==
  /\ MatchReturned
  /\ IsReversalOf(1)
  /\ HasHebrew(Val(call.employee_name))
  /\ ~SameForm(Val(call.employee_name), call.master_names[1])
  /\ Lt(Similarity(Val(call.employee_name), call.master_names[1]),
        call.threshold)
  /\ Val(ret).matched_name = Some(call.master_names[1])
  /\ Eq(Val(ret).match_ratio, ONE)

----------------------------------------------------------------------------
(* Properties of get_best_name_match *)

(* C10: both copies of get_best_name_match return a name that starts with *)
(* "**CHECK:" unchanged, and applying the function to its own result      *)
(* changes nothing.                                                        *)
C10_FlaggedNameReturned ==
  (pc = "idle" /\ call.fn # "match_employee_name") =>
    /\ (/\ Len(ret) >= 1
        /\ Truthy(call.employee_name)
        /\ startswith(Val(call.employee_name), CHECK_MARK))
         => ret[1] = call.employee_name
    /\ Len(ret) = 2 => ret[2] = ret[1]

\* a name was flagged by the first application and kept by the second
C10_Witness ==
  /\ pc = "idle"
  /\ call.fn = "export_to_excel.get_best_name_match"
  /\ Len(ret) = 2
  /\ Truthy(call.employee_name)
  /\ ~startswith(Val(call.employee_name), CHECK_MARK)
  /\ call.master_names # <<>>
  /\ ret[1] = Some(CHECK_PREFIX \o Val(call.employee_name))
  /\ ret[2] = ret[1]

----------------------------------------------------------------------------
(* Properties of validate_hours *)

\* the call of validate_hours has returned
HoursReturned == pc = "idle" /\ call.fn = "validate_hours" /\ ret # None

\* the hours can be validated
HoursGiven == ~IsNone(call.reported_hours) /\ call.standard_hours > 0

\* |reported - standard|
Deviation == Abs(Val(call.reported_hours) - call.standard_hours)

(* C11 as claimed: with reported hours and a positive standard, the hours *)
(* are valid exactly when |reported - standard| * 100 <= tolerance *      *)
(* standard.                                                               *)
C11_ValidIffWithinTolerance ==
  (HoursReturned /\ HoursGiven) =>
    (Val(ret).is_valid
       <=> Deviation * 100 <= call.tolerance_percent * call.standard_hours)

(* C11: with reported hours and a positive standard, the hours are valid  *)
(* when |reported - standard| * 100 < tolerance * standard and only when  *)
(* it is <= tolerance * standard; at the default tolerance of 10 the      *)
(* boundary is valid. Valid hours have the status "OK", the others the    *)
(* irregular-hours status with the deviation to the nearest tenth of a    *)
(* percent. validate_hours(176, 160, 10) is (True, "OK"),                 *)
(* validate_hours(200, 160, 10) is invalid with 25.0%, and                *)
(* validate_hours(107, 100, 7) is invalid with 7.0%.                      *)
C11_ValidIffQuotientWithin ==
  (HoursReturned /\ HoursGiven) =>
    /\ Deviation * 100 < call.tolerance_percent * call.standard_hours
         => Val(ret).is_valid
    /\ Val(ret).is_valid
         => Deviation * 100 <= call.tolerance_percent * call.standard_hours
    /\ call.tolerance_percent = DEFAULT_TOLERANCE =>
         (Val(ret).is_valid
            <=> Deviation * 100 <= DEFAULT_TOLERANCE * call.standard_hours)
    /\ Val(ret).is_valid => Val(ret).status = "OK"
    /\ ~Val(ret).is_valid =>
         /\ Val(ret).status = "Irregular Hours"
         /\ 2 * Abs(Val(ret).deviation_percent * call.standard_hours
                    - Deviation * 1000) <= call.standard_hours
    /\ (call.reported_hours = Some(176) /\ call.standard_hours = 160
        /\ call.tolerance_percent = 10)
         => Val(ret) = [is_valid |-> TRUE, status |-> "OK", deviation_percent |-> 0]
    /\ (call.reported_hours = Some(200) /\ call.standard_hours = 160
        /\ call.tolerance_percent = 10)
         => Val(ret) = [is_valid |-> FALSE, status |-> "Irregular Hours",
                        deviation_percent |-> 250]
    /\ (call.reported_hours = Some(107) /\ call.standard_hours = 100
        /\ call.tolerance_percent = 7)
         => Val(ret) = [is_valid |-> FALSE, status |-> "Irregular Hours",
                        deviation_percent |-> 70]

\* hours on the boundary of the default tolerance, found valid
C11_Witness ==
  /\ HoursReturned
  /\ HoursGiven
  /\ Deviation > 0
  /\ Deviation * 100 = DEFAULT_TOLERANCE * call.standard_hours
  /\ call.tolerance_percent = DEFAULT_TOLERANCE
  /\ Val(ret).is_valid

(* C12: without reported hours, or with standard hours of zero or less,   *)
(* validate_hours returns (True, "No validation") whatever the other      *)
(* arguments are.                                                          *)
C12_NoValidationWithoutData ==
  (HoursReturned /\ ~HoursGiven) =>
    Val(ret) = [is_valid |-> TRUE, status |-> "No validation",
                deviation_percent |-> 0]

\* hours far from any standard, and no standard to hold them against
C12_Witness ==
  /\ HoursReturned
  /\ call.reported_hours = Some(MaxHours)
  /\ call.standard_hours <= 0
  /\ Val(ret).status = "No validation"

----------------------------------------------------------------------------
(* apply_vacation_completion *)

\* the n-th application of apply_vacation_completion has returned
Applied(n) ==
  pc = "vacation_done" /\ call.fn = "apply_vacation_completion" /\ Len(ret) = n

\* the standard hours the roster has for the i-th record given, None without
\* a name or a match
StandardOf(i) ==
  IF ~Truthy(given[i].employee_name) THEN None
  ELSE vacation_standard_hours(match_table[master_dict][given[i].employee_name],
                               master_dict)

\* a metric of the i-th record given, None without a summary
Given(i, k) ==
  IF IsNone(given[i].report_summary) THEN None
  ELSE Val(given[i].report_summary)[k]

\* the i-th record given is of a matched employee, its presence hours are
\* below the standard hours and it has vacation days
Completable(i) ==
  /\ ~IsNone(StandardOf(i))
  /\ ~IsNone(Given(i, "total_presence_hours"))
  /\ ~IsNone(Given(i, "vacation_days"))
  /\ Val(Given(i, "total_presence_hours")) < Val(StandardOf(i))
  /\ Val(Given(i, "vacation_days")) > 0

\* standard - presence of the i-th record given, in millionths of an hour
HoursNeeded(i) ==
  (Val(StandardOf(i)) - Val(Given(i, "total_presence_hours"))) * 1000

\* vacationDays * 8.6 of the i-th record given, in millionths of an hour
VacationHoursAvailable(i) ==
  Val(Given(i, "vacation_days")) * HOURS_PER_VACATION_DAY

\* min(standard - presence, vacationDays * 8.6)
HoursToApply(i) ==
  CHOOSE h \in {HoursNeeded(i), VacationHoursAvailable(i)} :
    h <= HoursNeeded(i) /\ h <= VacationHoursAvailable(i)

\* a metric of the i-th record the n-th application returned
Returned(n, i, k) == Val(ret[n][i].report_summary)[k]

\* stored (thousandths) is a whole number of hundredths, one nearest to
\* num / den thousandths
NearestHundredth(stored, num, den) ==
  /\ stored % 10 = 0
  /\ 2 * Abs(stored * den - num) <= 10 * den

(* C13 as claimed: a completable record gets presence hours of exactly old *)
(* presence + hoursToApply and vacation days of exactly (vacationDays *    *)
(* 8.6 - hoursToApply) / 8.6, with hoursToApply = min(standard - presence, *)
(* vacationDays * 8.6), and the old presence under original_presence_hours. *)
C13_CompletionExact ==
  Applied(1) =>
    \A i \in 1..Len(given) : Completable(i) =>
      /\ Returned(1, i, "total_presence_hours") # None
      /\ Val(Returned(1, i, "total_presence_hours")) * 1000
           = Val(Given(i, "total_presence_hours")) * 1000 + HoursToApply(i)
      /\ Returned(1, i, "vacation_days") # None
      /\ Val(Returned(1, i, "vacation_days")) * HOURS_PER_VACATION_DAY
           = VacationHoursAvailable(i) - HoursToApply(i)
      /\ Returned(1, i, "original_presence_hours")
           = Given(i, "total_presence_hours")

(* C13: a completable record gets presence hours of old presence +         *)
(* hoursToApply rounded to two decimals and vacation days of               *)
(* (vacationDays * 8.6 - hoursToApply) / 8.6 rounded to two decimals, with *)
(* hoursToApply = min(standard - presence, vacationDays * 8.6), and the    *)
(* old presence, not rounded, under original_presence_hours.               *)
C13_CompletionRounded ==
  Applied(1) =>
    \A i \in 1..Len(given) : Completable(i) =>
      /\ Returned(1, i, "total_presence_hours") # None
      /\ NearestHundredth(Val(Returned(1, i, "total_presence_hours")),
           Val(Given(i, "total_presence_hours")) * 1000 + HoursToApply(i), 1000)
      /\ Returned(1, i, "vacation_days") # None
      /\ NearestHundredth(Val(Returned(1, i, "vacation_days")),
           VacationHoursAvailable(i) - HoursToApply(i), HOURS_PER_VACATION_DAY)
      /\ Returned(1, i, "original_presence_hours")
           = Given(i, "total_presence_hours")

\* a record completed with all its vacation, its new presence hours rounded
C13_Witness ==
  /\ Applied(1)
  /\ \E i \in 1..Len(given) :
       /\ Completable(i)
       /\ VacationHoursAvailable(i) < HoursNeeded(i)
       /\ Val(Given(i, "total_presence_hours")) % 10 # 0
       /\ Val(Returned(1, i, "total_presence_hours"))
            > Val(Given(i, "total_presence_hours"))
       /\ Returned(1, i, "vacation_days") = Some(0)

(* C14 as claimed: a second application of apply_vacation_completion, to   *)
(* the records the first one returned, changes nothing: presence hours,   *)
(* vacation days and original_presence_hours keep their values.            *)
C14_SecondApplicationChangesNothing ==
  Applied(2) =>
    \A i \in 1..Len(given) : ret[2][i] = ret[1][i]

(* C15 as claimed: after apply_vacation_completion the records passed in, *)
(* and their report_summary mappings, hold the values they had before the *)
(* call.                                                                   *)
C15_InputUnchanged ==
  Applied(1) => all_results = given

----------------------------------------------------------------------------
(* validate_and_unify_data and the records it is given *)

(* C16 as claimed: when validate_and_unify_data returns, every record it  *)
(* was given, and the record's report_summary mapping, equal their value  *)
(* before the call, also for the first record of a group into which later *)
(* duplicates were merged.                                                 *)
C16_InputNotMutated ==
  Done => all_results = given

----------------------------------------------------------------------------
(* The order of the steps of main.py *)

\* apply_vacation_completion has changed the presence hours of some record
PresenceCompleted ==
  \E i \in 1..Len(all_results) :
    /\ ~IsNone(all_results[i].report_summary)
    /\ ~IsNone(Val(all_results[i].report_summary)["original_presence_hours"])

\* validate_and_unify_data has returned
Unified == pc = "done"

(* C17 as claimed: in a run of the pipeline no presence-hours value is    *)
(* changed by apply_vacation_completion before validate_and_unify_data    *)
(* has deduplicated and merged the batch, and the hours that were         *)
(* validated are the reported figures.                                     *)
C17_CompletionAfterUnification ==
  /\ PresenceCompleted => Unified
  /\ Unified =>
       \A r \in Rows :
         validated_results[r].reported_hours
           = Given(validated_results[r].src, "total_presence_hours")

----------------------------------------------------------------------------
(* validate_and_unify_data and the order of the batch *)

\* the batch in the order p
Permuted(batch, p) == [i \in 1..Len(batch) |-> batch[p[i]]]

\* the (display name, report period) pairs of validated results
IdentitiesOf(rows) ==
  { <<rows[r].employee_name, rows[r].report_period>> : r \in 1..Len(rows) }

(* C18 as claimed: for every batch and every permutation of it,           *)
(* validate_and_unify_data returns the same set of (display name, report  *)
(* period) pairs.                                                          *)
C18_OrderIndependent ==
  Done =>
    \A p \in Permutations(1..Len(given)) :
      IdentitiesOf(validate_and_unify_data(Permuted(given, p)).validated_results)
        = IdentitiesOf(validated_results)

\* the loop and the function agree on the batch as given
UnifyAgrees ==
  Done =>
    validate_and_unify_data(given)
      = [all_results |-> all_results, validated_results |-> validated_results]

----------------------------------------------------------------------------
(* validate_and_unify_data and the records without a name *)

\* the batch without its nameless records
NamedOnly(batch) == SelectSeq(batch, LAMBDA r : Truthy(r.employee_name))

\* validated results as the caller sees them: every row with the summary it
\* shares with its record, the position of the record left out
Shown(records, rows) ==
  [r \in 1..Len(rows) |->
     [row |-> [rows[r] EXCEPT !.src = 0],
      report_summary |-> records[rows[r].src].report_summary]]

ShownOutput(u) == Shown(u.all_results, u.validated_results)

(* C20: a record whose employee name is null or empty yields no output    *)
(* row, and the output, rows and merged metrics, is the output of         *)
(* validate_and_unify_data for the batch without the nameless records.    *)
C20_NamelessSkipped ==
  Done =>
    /\ \A r \in Rows : Truthy(given[validated_results[r].src].employee_name)
    /\ Shown(all_results, validated_results)
         = ShownOutput(validate_and_unify_data(NamedOnly(given)))

\* a null name and an empty name in a batch whose other record is output
C20_Witness ==
  /\ Done
  /\ \E i, j \in Records :
       /\ given[i].employee_name = None
       /\ given[j].employee_name = Some(<<>>)
       /\ ~IsNone(Val(given[i].report_summary)["total_presence_hours"])
  /\ Len(validated_results) = 1

----------------------------------------------------------------------------
(* validate_and_unify_data and malformed records *)

\* an exception has left validate_and_unify_data
Raised == pc = "raised"

\* record i of the batch is as the parser makes it
WellFormed(i) == given[i] \in WellFormedRecords

(* C19 as claimed: for a batch with one malformed record (missing name,   *)
(* report_summary null or not a mapping, a metric value that is not a     *)
(* number) no exception leaves validate_and_unify_data, and when it       *)
(* returns every other record of the batch is in the output under its    *)
(* roster name, or flagged under the name it has.                         *)
C19_NoExceptionEscapes ==
  /\ ~Raised
  /\ Done =>
       \A i \in Records : WellFormed(i) =>
         \E r \in Rows :
           validated_results[r].employee_name
             = IF Resolved(i) THEN Val(Resolution(i).matched_name)
               ELSE CHECK_PREFIX \o Val(given[i].employee_name)


----------------------------------------------------------------------------
(* The roster file: a failed load, and the roster within one run *)

\* the calls of the roster functions so far
Loads == 1..Len(ret)

\* the run has looked for the roster and no call could load the file: it
\* was missing, or the load ended in the except branch
RosterUnavailable ==
  /\ call = [fn |-> "main"]
  /\ ret # <<>>
  /\ \A i \in Loads : ret[i].outcome # "loaded"

\* row r is the flagged row of a record: the CHECK prefix before the name as
\* given, and a match ratio of 0.0
FlaggedRowOf(r, record) ==
  /\ validated_results[r].employee_name
       = CHECK_PREFIX \o Val(record.employee_name)
  /\ validated_results[r].match_ratio = ZERO

(* C21 as claimed: when the roster source is missing or unreadable the   *)
(* run goes on with an empty roster, and validate_and_unify_data returns  *)
(* one flagged row, with match ratio 0.0, for every record that has a     *)
(* non-empty name.                                                        *)
C21_NoRosterAllFlagged ==
  (Done /\ RosterUnavailable) =>
    /\ master_dict = <<>>
    /\ Len(validated_results) = Len(NamedOnly(given))
    /\ \A r \in Rows : FlaggedRowOf(r, NamedOnly(given)[r])

(* C22 as claimed: after the first call of load_master_data or            *)
(* get_master_employee_dict no later call reads the source again or       *)
(* returns a different roster, whatever happens to the file between the   *)
(* calls and whether the first load succeeded or failed.                  *)
C22_LoadedOncePerRun ==
  call = [fn |-> "main"] =>
    \A i, j \in Loads :
      i < j =>
        /\ ret[j].outcome = "cached"
        /\ ret[i].fn = ret[j].fn => ret[i].value = ret[j].value

----------------------------------------------------------------------------
(* match_employee_name on an empty roster and on an empty name *)

(* C23: match_employee_name returns (None, 0.0) at once when the roster   *)
(* is empty and when the raw name is empty or null, for every threshold.  *)
C23_EmptyInputNoMatch ==
  (MatchReturned /\ (call.master_names = <<>> \/ ~Truthy(call.employee_name))) =>
    Val(ret) = MatchResult(None, ZERO)

\* an empty name and a roster with a name that is empty once normalized,
\* which the empty name would equal
C23_Witness ==
  /\ MatchReturned
  /\ call.employee_name = Some(<<>>)
  /\ call.master_names = <<NAME_dash, NAME_ab>>
  /\ call.threshold = ONE
  /\ Val(ret).matched_name = None

----------------------------------------------------------------------------
(* normalize_name applied to its own result *)

(* C24: normalize_name is idempotent: normalize_name(normalize_name(x))   *)
(* is normalize_name(x) for every input x, strings of spaces and of the   *)
(* characters - " ' and inputs that are not strings included.             *)
C24_NormalizeIdempotent ==
  (call.fn = "normalize_name" /\ Len(ret) = 2) => ret[2] = ret[1]

\* a name of a hyphen between a letter and a space: normalized to the letter
C24_Witness ==
  /\ call.fn = "normalize_name"
  /\ call.name = Some(<<97, 45, 32>>)
  /\ ret = <<<<97>>, <<97>>>>

----------------------------------------------------------------------------
(* _fix_rtl_name of report_parser.py *)

RtlReturned == call.fn = "report_parser._fix_rtl_name" /\ ret # None

\* the best similarity of a string over the reference list, as a quotient
BestSimilarity(candidate) ==
  best_ratio_over(strip(candidate), call.EMPLOYEE_NAMES, 1, ZERO)

\* best(reversed) - best(given) > 1/10
MarginAboveTenth(name) ==
  LET above(r, o) == 10 * (r[1] * o[2] - o[1] * r[2]) > r[2] * o[2]
  IN above(BestSimilarity(reversed(name)), BestSimilarity(name))

(* C25 as claimed: _fix_rtl_name returns the reversed name only when the  *)
(* name has a character of the Hebrew range and the best similarity of    *)
(* the reversed name over the reference list exceeds that of the name as  *)
(* given by more than 0.1; in every other case, an equal score and a      *)
(* margin of exactly 0.1 included, it returns its input unchanged.        *)
C25_ReversedOnlyAboveMargin ==
  RtlReturned =>
    IF /\ Truthy(call.name)
       /\ HasHebrew(Val(call.name))
       /\ MarginAboveTenth(Val(call.name))
    THEN Val(ret) = Some(strip(reversed(Val(call.name))))
    ELSE Val(ret) = call.name

----------------------------------------------------------------------------
(* match_employee_name: when the reversed orientation is compared *)

\* the best roster name of the same-orientation comparison alone
SameOrientationBest(name_norm) ==
  fuzzy_scan(name_norm, call.master_names, 1,
             [best_match |-> None, best_ratio |-> ZERO])

\* what the exact and the same-orientation steps alone return
SameOrientation(name_norm) ==
  LET first(hit) ==
        IF hit # 0 THEN MatchResult(Some(call.master_names[hit]), ONE)
        ELSE match_or_none(SameOrientationBest(name_norm), call.threshold)
  IN first(exact_scan(name_norm, call.master_names, 1))

\* the result is not that of the exact and same-orientation steps: the
\* reversed-orientation comparison ran and changed it
ReversedDecided == Val(ret) # SameOrientation(normalize_name(Val(call.employee_name)))

(* C26: the reversed-orientation comparison of match_employee_name acts   *)
(* only when the best same-orientation score is below the threshold and   *)
(* reversing changes the normalized name, which has a Hebrew-range        *)
(* character then; for a name without such a character the result is that *)
(* of the exact and same-orientation steps alone, and a same-orientation  *)
(* match that clears the threshold is never replaced.                     *)
C26_ReversedOnlyBelowThreshold ==
  (MatchReturned /\ Truthy(call.employee_name) /\ call.master_names # <<>>) =>
    \A name_norm \in {normalize_name(Val(call.employee_name))} :
      /\ ReversedDecided =>
           /\ Lt(SameOrientationBest(name_norm).best_ratio, call.threshold)
           /\ reversed(name_norm) # name_norm
           /\ HasHebrew(name_norm)
      /\ ~HasHebrew(Val(call.employee_name)) => ~ReversedDecided
      /\ Truthy(SameOrientation(name_norm).matched_name) => ~ReversedDecided

\* a Hebrew name below the threshold as given and resolved once reversed
C26_Witness ==
  /\ MatchReturned
  /\ Truthy(call.employee_name)
  /\ HasHebrew(Val(call.employee_name))
  /\ ReversedDecided
  /\ Truthy(Val(ret).matched_name)
  /\ Len(call.master_names) = 2

----------------------------------------------------------------------------
(* validate_and_unify_data: reported_hours and hours_status of a row *)

\* the presence hours when they are not null, the approved hours otherwise
PresenceElseApproved(summary) ==
  IF ~IsNone(summary["total_presence_hours"])
  THEN summary["total_presence_hours"]
  ELSE summary["total_approved_hours"]

(* C27 as claimed: for a matched record reported_hours is                 *)
(* total_presence_hours whenever that metric is not null, a value of 0    *)
(* included; total_approved_hours is used only when total_presence_hours  *)
(* is null.                                                               *)
C27_PresenceUnlessNull ==
  Done =>
    \A r \in Rows :
      IsMatchedRow(r) =>
        validated_results[r].reported_hours
          = PresenceElseApproved(Val(given[validated_results[r].src].report_summary))

(* C28 as claimed: in every record returned, reported_hours and           *)
(* hours_status agree with the record's final merged report_summary:      *)
(* reported_hours is the presence (else approved) hours of the merged     *)
(* summary and, for a matched record, hours_status is validate_hours of   *)
(* that value, also for a record into which later duplicates were merged. *)
C28_HoursAgreeWithMergedSummary ==
  Done =>
    \A r \in Rows :
      \A merged \in {get_reported_hours(Val(summary_of(all_results, validated_results[r])))} :
        /\ validated_results[r].reported_hours = merged
        /\ IsMatchedRow(r) =>
             validated_results[r].hours_status
               = validate_hours(merged, Val(validated_results[r].standard_hours),
                                DEFAULT_TOLERANCE).status

----------------------------------------------------------------------------
(* deduplicate_results and the cells of the sheet *)

\* deduplicate_results has returned
Deduplicated == call.fn = "update_google_sheets" /\ ret # <<>>

(* C29 as claimed: deduplicate_results returns at most one record per     *)
(* unified employee name, also when the records of that name differ in    *)
(* employee_id (one with an identifier, one without), so that the sheet   *)
(* update never writes the hours cell of one row from two records.        *)
C29_OneRecordPerName ==
  /\ Deduplicated =>
       \A i, j \in 1..Len(ret[1]) :
         (i # j /\ Truthy(ret[1][i].employee_name))
           => ret[1][i].employee_name # ret[1][j].employee_name
  /\ (call.fn = "update_google_sheets" /\ Len(ret) = 2) =>
       \A i, j \in 1..Len(ret[2]) : i # j => ret[2][i].row # ret[2][j].row

----------------------------------------------------------------------------
(* apply_vacation_completion: what a run may change *)

\* the n-th application changed the i-th record
ChangedBy(n, i) ==
  ret[n][i] # (IF n = 1 THEN given[i] ELSE ret[n - 1][i])

(* C30 as claimed: apply_vacation_completion never over-completes: every  *)
(* record it changed has total_presence_hours <= the employee's standard  *)
(* hours and vacation_days >= 0, and a record of an employee with no      *)
(* roster match, no standard hours, no vacation days or presence hours    *)
(* at the standard already is left exactly as it was.                     *)
C30_NeverOverCompletes ==
  Applied(1) =>
    \A i \in 1..Len(given) :
      /\ ChangedBy(1, i) =>
           /\ Val(Returned(1, i, "total_presence_hours")) <= Val(StandardOf(i))
           /\ Val(Returned(1, i, "vacation_days")) >= 0
      /\ ~Completable(i) => ~ChangedBy(1, i)

====
